---------------------------- MODULE Spec2Model ----------------------------
(***************************************************************************)
(* Model of the Tanmatsu audio engine:                                     *)
(*   - the tracker ring buffer (write_to_ring_buffer in modplayer_esp32.c, *)
(*     the ring-buffer read of audio_task in main.c);                      *)
(*   - the keyboard voice pool with its ADSR envelopes (start_note,        *)
(*     stop_note, update_adsr and the mixing loop of audio_task, second    *)
(*     half of modplayer_esp32.c);                                         *)
(*   - the tracker: load_mod_embedded and the sequencer of modplayer_task; *)
(*   - the output stage of audio_task: clipping, conversion, sink write.  *)
(* Floating point levels are kept as exact fractions [n, d].               *)
(***************************************************************************)
EXTENDS Integers, Sequences, FiniteSets, TLC

(***************************************************************************)
(* Bounds of the model.                                                    *)
(***************************************************************************)
\* Capacity of the ring buffer in the model (MOD_BUFFER_SIZE, 2048 on the device).
BufSize == 3
\* Largest `count` handed to write_to_ring_buffer in the model.
MaxCount == 2
\* Total number of samples that the model lets the producer publish.
MaxProduced == 4
\* Slots of the voice pool in the model (MAX_ACTIVE_NOTES, 13 on the device).
SlotsBound == 2
\* Slots of the voice pool where the two tasks are followed step by step.
RaceSlots == 1
\* Notes of the keyboard in the model (NUM_NOTES, 13 on the device).
NotesBound == 3
\* Envelope lengths in samples in the model (220, 4410 and 2205 on the device).
AttackBound == 2
DecayBound == 2
ReleaseBound == 2
\* Rows of a pattern in the model (ROWS_PER_PATTERN, 64 on the device).
RowsBound == 2
\* Frames of an output buffer in the model (FRAMES_PER_WRITE, 64 on the device).
FramesBound == 2
\* Frames that the model lets a mixer produce.
MaxFrames == 3
\* Output samples mixed with a constant number of sounding voices.
MaxSteady == 1100
\* Sounds that the main loop can trigger (5 on the device).
SoundsBound == 2
\* Slots of active_sounds (MAX_ACTIVE_SOUNDS, 5 on the device).
SoundSlots == 2

\* Native-rate samples that the tracker may hand to write_to_ring_buffer.
SampleValues == {-32768, 10, 32767}

VARIABLES
    mod_ring_buffer,   \* int16_t mod_ring_buffer[MOD_BUFFER_SIZE]
    mod_write_pos,     \* volatile uint32_t mod_write_pos
    mod_read_pos,      \* volatile uint32_t mod_read_pos
    wr,                \* the tracker task inside write_to_ring_buffer
    rd,                \* the mixer inside the ring-buffer read of audio_task
    produced,          \* history: the samples published so far, in order
    consumed,          \* history: the samples the mixer has taken, in order
    active_notes,      \* static active_note_t active_notes[MAX_ACTIVE_NOTES]
    note_keys_pressed, \* static bool note_keys_pressed[NUM_NOTES]
    cfg,               \* the constants of keyboard_notes.h the build was made with
    inp,               \* the input loop of app_main inside start_note / stop_note
    au,                \* audio_task inside the mixing loop of one output frame
    since_on,          \* history: frames mixed since start_note last took the slot
    since_off,         \* history: frames mixed since stop_note released the slot, or -1
    mod_data,          \* const uint8_t mod_data[] with mod_data_len, as the loader reads it
    mod,               \* MODFile mod of modplayer_task
    mod_player_running, \* volatile bool mod_player_running
    trk,               \* modplayer_task: its locals and its position in the loop
    pace,              \* unread samples of the device's ring buffer, tick by tick
    out,               \* audio_task at its output stage
    sound_trigger,     \* static volatile bool sound_trigger[5]
    active_sounds,     \* static active_sound_t active_sounds[MAX_ACTIVE_SOUNDS]
    mx,                \* audio_task of main.c inside its loop over the triggers
    raised             \* history: the trigger was raised and the sound not restarted since

ringVars == <<mod_ring_buffer, mod_write_pos, mod_read_pos, wr, rd, produced, consumed>>

voiceVars == <<active_notes, note_keys_pressed, cfg, inp, au, since_on, since_off>>

trackVars == <<mod_data, mod, mod_player_running, trk, pace, out>>

soundVars == <<sound_trigger, active_sounds, mx, raised>>

vars == <<mod_ring_buffer, mod_write_pos, mod_read_pos, wr, rd, produced, consumed,
          active_notes, note_keys_pressed, cfg, inp, au, since_on, since_off,
          mod_data, mod, mod_player_running, trk, pace, out,
          sound_trigger, active_sounds, mx, raised>>

(***************************************************************************)
(* Ring buffer: producer (write_to_ring_buffer).                           *)
(***************************************************************************)
\* (int16_t)(samples[i] * MOD_VOLUME_SCALE): scale by 0.7, truncate toward zero.
ScaleSample(s) ==
    IF s >= 0 THEN (s * 7) \div 10 ELSE -(((-s) * 7) \div 10)

\* Mutant of NextPos: the index is not wrapped.
NextPos_nowrap(pos) == pos + 1

\* uint32_t next_pos = (mod_write_pos + 1) % MOD_BUFFER_SIZE
NextPos(pos) == (pos + 1) % BufSize

\* Mutant of RingFull: the overflow test is missing.
RingFull_never(next_pos, read_pos) == FALSE

\* if (next_pos == mod_read_pos): the buffer is full, the sample is skipped
RingFull(next_pos, read_pos) == next_pos = read_pos

\* attempts: history, the write attempts of the current (or the last) call.
WrIdle == [pc |-> "idle", samples |-> <<>>, i |-> 0, j |-> 0,
           scaled_sample |-> 0, next_pos |-> 0, attempts |-> 0, stored |-> 0]

\* Loop control of the two nested for loops, after write attempt j of sample i.
WrAfterAttempt(w) ==
    IF w.j + 1 < 2
    THEN [w EXCEPT !.j = w.j + 1, !.pc = "attempt"]
    ELSE IF w.i + 1 < Len(w.samples)
         THEN [w EXCEPT !.i = w.i + 1, !.j = 0, !.pc = "attempt", !.stored = 0,
                        !.scaled_sample = ScaleSample(w.samples[w.i + 2])]
         ELSE [WrIdle EXCEPT !.attempts = w.attempts]

\* The tracker task calls write_to_ring_buffer(samples, count), count >= 1.
WriteCall ==
    /\ wr.pc = "idle"
    /\ Len(produced) < MaxProduced
    /\ \E count \in 1..MaxCount : \E s \in [1..count -> SampleValues] :
          wr' = [WrIdle EXCEPT !.pc = "attempt", !.samples = s,
                               !.scaled_sample = ScaleSample(s[1])]
    /\ UNCHANGED <<mod_ring_buffer, mod_write_pos, mod_read_pos, rd, produced, consumed>>
    /\ UNCHANGED <<voiceVars, trackVars, soundVars>>

\* Mutant of WriteAttempt: a full buffer makes the producer try again
\* until the consumer has made room.
WriteAttempt_retry ==
    /\ wr.pc = "attempt"
    /\ LET next_pos == NextPos(mod_write_pos)
           w == [wr EXCEPT !.attempts = wr.attempts + 1]
       IN  wr' = IF RingFull(next_pos, mod_read_pos)
                 THEN w
                 ELSE [w EXCEPT !.next_pos = next_pos, !.pc = "store"]
    /\ UNCHANGED <<mod_ring_buffer, mod_write_pos, mod_read_pos, rd, produced, consumed>>
    /\ UNCHANGED <<voiceVars, trackVars, soundVars>>

\* One write attempt: compute next_pos, test it against mod_read_pos.
WriteAttempt ==
    /\ wr.pc = "attempt"
    /\ LET next_pos == NextPos(mod_write_pos)
           w == [wr EXCEPT !.attempts = wr.attempts + 1]
       IN  wr' = IF RingFull(next_pos, mod_read_pos)
                 THEN WrAfterAttempt(w)
                 ELSE [w EXCEPT !.next_pos = next_pos, !.pc = "store"]
    /\ UNCHANGED <<mod_ring_buffer, mod_write_pos, mod_read_pos, rd, produced, consumed>>
    /\ UNCHANGED <<voiceVars, trackVars, soundVars>>

\* Mutant of WriteStore: the sample is stored at next_pos.
WriteStore_next ==
    /\ wr.pc = "store"
    /\ mod_ring_buffer' = [mod_ring_buffer EXCEPT ![wr.next_pos] = wr.scaled_sample]
    /\ wr' = [wr EXCEPT !.pc = "publish"]
    /\ UNCHANGED <<mod_write_pos, mod_read_pos, rd, produced, consumed>>
    /\ UNCHANGED <<voiceVars, trackVars, soundVars>>

\* mod_ring_buffer[mod_write_pos] = scaled_sample
WriteStore ==
    /\ wr.pc = "store"
    /\ mod_ring_buffer' = [mod_ring_buffer EXCEPT ![mod_write_pos] = wr.scaled_sample]
    /\ wr' = [wr EXCEPT !.pc = "publish"]
    /\ UNCHANGED <<mod_write_pos, mod_read_pos, rd, produced, consumed>>
    /\ UNCHANGED <<voiceVars, trackVars, soundVars>>

\* mod_write_pos = next_pos
WritePublish ==
    /\ wr.pc = "publish"
    /\ mod_write_pos' = wr.next_pos
    /\ produced' = Append(produced, wr.scaled_sample)
    /\ wr' = WrAfterAttempt([wr EXCEPT !.stored = wr.stored + 1])
    /\ UNCHANGED <<mod_ring_buffer, mod_read_pos, rd, consumed>>
    /\ UNCHANGED <<voiceVars, trackVars, soundVars>>

(***************************************************************************)
(* Ring buffer: consumer (audio_task of main.c, once per output frame).    *)
(***************************************************************************)
\* if (mod_read_pos != mod_write_pos)
RingEmpty(read_pos, write_pos) == read_pos = write_pos

RdIdle == [pc |-> "compare", mod_sample |-> 0, empty |-> FALSE]

\* The test at the head of the read; an empty buffer leaves the frame without a sample.
ReadCompare ==
    /\ rd.pc = "compare"
    /\ rd' = IF RingEmpty(mod_read_pos, mod_write_pos)
             THEN [rd EXCEPT !.empty = TRUE]
             ELSE [rd EXCEPT !.empty = FALSE, !.pc = "load"]
    /\ UNCHANGED <<mod_ring_buffer, mod_write_pos, mod_read_pos, wr, produced, consumed>>
    /\ UNCHANGED <<voiceVars, trackVars, soundVars>>

\* int16_t mod_sample = mod_ring_buffer[mod_read_pos]
ReadLoad ==
    /\ rd.pc = "load"
    /\ rd' = [rd EXCEPT !.mod_sample = mod_ring_buffer[mod_read_pos], !.pc = "advance"]
    /\ UNCHANGED <<mod_ring_buffer, mod_write_pos, mod_read_pos, wr, produced, consumed>>
    /\ UNCHANGED <<voiceVars, trackVars, soundVars>>

\* mod_read_pos = (mod_read_pos + 1) % MOD_BUFFER_SIZE
ReadAdvance ==
    /\ rd.pc = "advance"
    /\ mod_read_pos' = NextPos(mod_read_pos)
    /\ consumed' = Append(consumed, rd.mod_sample)
    /\ rd' = [rd EXCEPT !.pc = "compare"]
    /\ UNCHANGED <<mod_ring_buffer, mod_write_pos, wr, produced>>
    /\ UNCHANGED <<voiceVars, trackVars, soundVars>>

\* modplayer_init: the buffer zeroed, both indices 0.
InitRing ==
    /\ mod_ring_buffer = [p \in 0..(BufSize - 1) |-> 0]
    /\ mod_write_pos = 0
    /\ mod_read_pos = 0
    /\ wr = WrIdle
    /\ rd = RdIdle
    /\ produced = <<>>
    /\ consumed = <<>>

NextRing ==
    \/ WriteCall
    \/ WriteAttempt
    \/ WriteStore
    \/ WritePublish
    \/ ReadCompare
    \/ ReadLoad
    \/ ReadAdvance


(***************************************************************************)
(* Keyboard voice pool: data.                                              *)
(***************************************************************************)
\* adsr_state_t
ADSR_IDLE == "ADSR_IDLE"
ADSR_ATTACK == "ADSR_ATTACK"
ADSR_DECAY == "ADSR_DECAY"
ADSR_SUSTAIN == "ADSR_SUSTAIN"
ADSR_RELEASE == "ADSR_RELEASE"

\* A float level, kept exactly as the fraction n / d (d > 0).
Frac(n, d) == [n |-> n, d |-> d]
FracEq(a, b) == a.n * b.d = b.n * a.d
FracLeq(a, b) == a.n * b.d <= b.n * a.d
FracLess(a, b) == a.n * b.d < b.n * a.d
Zero == Frac(0, 1)
One == Frac(1, 1)

\* Sustain: hold at 70% level.
ADSR_SUSTAIN_LEVEL == Frac(7, 10)
\* Attack: 220 samples (5 ms at 44.1 kHz).
ADSR_ATTACK_SAMPLES == 220
\* Decay: 4410 samples (100 ms).
ADSR_DECAY_SAMPLES == 4410
\* Release: 2205 samples (50 ms).
ADSR_RELEASE_SAMPLES == 2205
\* #define MAX_ACTIVE_NOTES 13
MAX_ACTIVE_NOTES == 13
\* One octave chromatic: 13 notes.
NUM_NOTES == 13
\* Base frequency of the waveform, 261.63 Hz, in 1/100 Hz.
WAVEFORM_BASE_FREQ == 26163
\* note_defs[n].frequency in 1/100 Hz: C D E F G A B C (white), C# D# F# G# A# (black).
note_frequency ==
    <<26163, 29366, 32963, 34923, 39200, 44000, 49388, 52325,
      27718, 31113, 36999, 41530, 46616>>

\* The constants as built for the device.
DeviceCfg == [attack |-> ADSR_ATTACK_SAMPLES, decay |-> ADSR_DECAY_SAMPLES,
              release |-> ADSR_RELEASE_SAMPLES, num_notes |-> NUM_NOTES]
\* The constants scaled down to the bounds of the model.
SmallCfg == [attack |-> AttackBound, decay |-> DecayBound,
             release |-> ReleaseBound, num_notes |-> NotesBound]

\* memset(active_notes, 0, ...); note_index = -1; adsr_state = ADSR_IDLE
FreeVoice == [note_index |-> -1, playback_position |-> 0, playback_speed |-> Zero,
              adsr_state |-> ADSR_IDLE, adsr_timer |-> 0, adsr_level |-> Zero,
              key_held |-> FALSE]

Slots == DOMAIN active_notes
LastSlot(notes) == Cardinality(DOMAIN notes) - 1

(***************************************************************************)
(* Keyboard voice pool: start_note and stop_note, one shared access a step.*)
(* The context c is the caller's position: pc, the note, the loop index i  *)
(* and the local `slot`.                                                   *)
(***************************************************************************)
InIdle == [pc |-> "idle", note |-> -1, i |-> 0, slot |-> -1]

\* if (note_index < 0 || note_index >= NUM_NOTES) return;
NoteValid(n, k) == n >= 0 /\ n < k.num_notes

StartEntry(n, k) ==
    IF NoteValid(n, k) THEN [pc |-> "start_scan", note |-> n, i |-> 0, slot |-> -1]
    ELSE InIdle

StopEntry(n, k) ==
    IF NoteValid(n, k) THEN [pc |-> "stop_test", note |-> n, i |-> 0, slot |-> -1]
    ELSE InIdle

\* Mutant of SlotHoldsNote: the slot of a sounding note is never recognised.
SlotHoldsNote_never(v, n) == FALSE

\* Mutant of SlotHoldsNote: every slot is taken for the slot of the note.
SlotHoldsNote_any(v, n) == TRUE

\* if (active_notes[i].note_index == note_index): reuse the slot of this note
SlotHoldsNote(v, n) == v.note_index = n

\* Mutant of SlotIsFree: the test `slot == -1` is missing, the last free slot wins.
SlotIsFree_last(v, slot) == v.adsr_state = ADSR_IDLE

\* if (slot == -1 && active_notes[i].adsr_state == ADSR_IDLE): a free slot
SlotIsFree(v, slot) == slot = -1 /\ v.adsr_state = ADSR_IDLE

\* Mutant of StartScanStep: when the search finds no slot, the last slot is taken.
StartScanStep_steal(notes, c) ==
    LET v == notes[c.i] IN
    IF SlotHoldsNote(v, c.note)
    THEN [c EXCEPT !.slot = c.i, !.pc = "start_note_index"]
    ELSE LET slot == IF SlotIsFree(v, c.slot) THEN c.i ELSE c.slot IN
         IF c.i < LastSlot(notes)
         THEN [c EXCEPT !.slot = slot, !.i = c.i + 1]
         ELSE [c EXCEPT !.slot = IF slot >= 0 THEN slot ELSE c.i,
                        !.pc = "start_note_index"]

\* One iteration of the search loop of start_note, and `if (slot >= 0)` after it.
StartScanStep(notes, c) ==
    LET v == notes[c.i] IN
    IF SlotHoldsNote(v, c.note)
    THEN [c EXCEPT !.slot = c.i, !.pc = "start_note_index"]
    ELSE LET slot == IF SlotIsFree(v, c.slot) THEN c.i ELSE c.slot IN
         IF c.i < LastSlot(notes)
         THEN [c EXCEPT !.slot = slot, !.i = c.i + 1]
         ELSE IF slot >= 0
              THEN [c EXCEPT !.slot = slot, !.pc = "start_note_index"]
              ELSE InIdle

\* playback_speed = note_defs[note_index].frequency / WAVEFORM_BASE_FREQ
NoteSpeed(n) == Frac(note_frequency[n + 1], WAVEFORM_BASE_FREQ)

\* The next position of stop_note's loop after slot i.
StopNext(notes, c) ==
    IF c.i < LastSlot(notes) THEN [c EXCEPT !.i = c.i + 1, !.pc = "stop_test"]
    ELSE InIdle

\* One step of start_note or stop_note: [notes, c] after the step.
InStep(notes, c) ==
    CASE c.pc = "start_scan" ->
            [notes |-> notes, c |-> StartScanStep(notes, c)]
      [] c.pc = "start_note_index" ->
            [notes |-> [notes EXCEPT ![c.slot].note_index = c.note],
             c |-> [c EXCEPT !.pc = "start_playback_position"]]
      [] c.pc = "start_playback_position" ->
            [notes |-> [notes EXCEPT ![c.slot].playback_position = 0],
             c |-> [c EXCEPT !.pc = "start_playback_speed"]]
      [] c.pc = "start_playback_speed" ->
            [notes |-> [notes EXCEPT ![c.slot].playback_speed = NoteSpeed(c.note)],
             c |-> [c EXCEPT !.pc = "start_adsr_state"]]
      [] c.pc = "start_adsr_state" ->
            [notes |-> [notes EXCEPT ![c.slot].adsr_state = ADSR_ATTACK],
             c |-> [c EXCEPT !.pc = "start_adsr_timer"]]
      [] c.pc = "start_adsr_timer" ->
            [notes |-> [notes EXCEPT ![c.slot].adsr_timer = 0],
             c |-> [c EXCEPT !.pc = "start_adsr_level"]]
      [] c.pc = "start_adsr_level" ->
            [notes |-> [notes EXCEPT ![c.slot].adsr_level = Zero],
             c |-> [c EXCEPT !.pc = "start_key_held"]]
      [] c.pc = "start_key_held" ->
            [notes |-> [notes EXCEPT ![c.slot].key_held = TRUE],
             c |-> InIdle]
      [] c.pc = "stop_test" ->
            [notes |-> notes,
             c |-> IF SlotHoldsNote(notes[c.i], c.note)
                   THEN [c EXCEPT !.pc = "stop_write"]
                   ELSE StopNext(notes, c)]
      [] c.pc = "stop_write" ->
            [notes |-> [notes EXCEPT ![c.i].key_held = FALSE],
             c |-> StopNext(notes, c)]
      [] OTHER -> [notes |-> notes, c |-> c]

\* A call run to its return without interruption.
RECURSIVE RunInput(_, _)
RunInput(notes, c) ==
    IF c.pc = "idle" THEN notes
    ELSE LET r == InStep(notes, c) IN RunInput(r.notes, r.c)

\* void start_note(int note_index)
start_note(notes, n, k) == RunInput(notes, StartEntry(n, k))

\* void stop_note(int note_index)
stop_note(notes, n, k) == RunInput(notes, StopEntry(n, k))

\* The slot that the search loop of start_note settles on, -1 when there is none.
RECURSIVE RunScan(_, _)
RunScan(notes, c) ==
    IF c.pc = "start_scan" THEN RunScan(notes, StartScanStep(notes, c))
    ELSE IF c.pc = "idle" THEN -1 ELSE c.slot

start_slot(notes, n, k) == RunScan(notes, StartEntry(n, k))

(***************************************************************************)
(* Keyboard voice pool: the mixing loop of audio_task over the slots of    *)
(* one output frame, with update_adsr inlined, one shared access a step.   *)
(* The context a is the task's position: pc, the slot i and the register t *)
(* that holds adsr_timer after its increment.  k holds the constants.      *)
(***************************************************************************)
AuIdle == [pc |-> "check", i |-> 0, t |-> 0]

\* The loop goes on to the next slot; after the last one the frame is mixed
\* and the loop starts again with slot 0 of the next frame.
AuNextSlot(notes, a) ==
    IF a.i < LastSlot(notes) THEN [pc |-> "check", i |-> a.i + 1, t |-> 0]
    ELSE AuIdle

\* note->adsr_level = (float)note->adsr_timer / ADSR_ATTACK_SAMPLES
AttackLevel(t, k) == Frac(t, k.attack)

\* Mutant of DecayLevel: the decay term is added instead of subtracted.
DecayLevel_rising(t, k) ==
    Frac(ADSR_SUSTAIN_LEVEL.d * k.decay
            + (ADSR_SUSTAIN_LEVEL.d - ADSR_SUSTAIN_LEVEL.n) * t,
         ADSR_SUSTAIN_LEVEL.d * k.decay)

\* note->adsr_level = 1.0f - (1.0f - ADSR_SUSTAIN_LEVEL) * decay_progress
DecayLevel(t, k) ==
    Frac(ADSR_SUSTAIN_LEVEL.d * k.decay
            - (ADSR_SUSTAIN_LEVEL.d - ADSR_SUSTAIN_LEVEL.n) * t,
         ADSR_SUSTAIN_LEVEL.d * k.decay)

\* note->adsr_level = ADSR_SUSTAIN_LEVEL * (1.0f - release_progress)
ReleaseLevel(t, k) ==
    Frac(ADSR_SUSTAIN_LEVEL.n * (k.release - t), ADSR_SUSTAIN_LEVEL.d * k.release)

\* Mutant of AttackDone: the attack is ended by the decay length.
AttackDone_decay(t, k) == t >= k.decay

\* Mutant of ReleaseDone: the release ends one sample early.
ReleaseDone_early(t, k) == t + 1 >= k.release

\* if (note->adsr_timer >= ADSR_ATTACK_SAMPLES)
AttackDone(t, k) == t >= k.attack
\* if (note->adsr_timer >= ADSR_DECAY_SAMPLES)
DecayDone(t, k) == t >= k.decay
\* if (note->adsr_timer >= ADSR_RELEASE_SAMPLES)
ReleaseDone(t, k) == t >= k.release

\* switch (note->adsr_state)
\* Mutant of AdsrCase: the Attack case runs into the Decay case.
AdsrCase_fall(st) ==
    CASE st = ADSR_ATTACK -> "decay_inc_read"
      [] st = ADSR_DECAY -> "decay_inc_read"
      [] st = ADSR_SUSTAIN -> "sustain_level"
      [] st = ADSR_RELEASE -> "release_inc_read"
      [] OTHER -> "idle_level"

\* switch (note->adsr_state)
AdsrCase(st) ==
    CASE st = ADSR_ATTACK -> "attack_inc_read"
      [] st = ADSR_DECAY -> "decay_inc_read"
      [] st = ADSR_SUSTAIN -> "sustain_level"
      [] st = ADSR_RELEASE -> "release_inc_read"
      [] OTHER -> "idle_level"

\* playback_position += playback_speed (and the wrap that keeps it bounded).
\* The position is kept as 0 (the start of the cycle, where start_note puts
\* it) or 1 (advanced past the start): playback_speed is positive.
AdvancePosition(pos) == 1

AdsrPcs ==
    {"switch", "idle_level",
     "attack_inc_read", "attack_inc_write", "attack_level", "attack_state",
     "attack_timer", "attack_full",
     "decay_inc_read", "decay_inc_write", "decay_level", "decay_state", "decay_sustain",
     "sustain_level", "sustain_test", "sustain_state", "sustain_timer",
     "release_inc_read", "release_inc_write", "release_level", "release_state",
     "release_zero", "release_free"}

\* One step of the mixing loop: [notes, a] after the step.
AuStep(notes, a, k) ==
    LET v == notes[a.i]
        Go(pc) == [a EXCEPT !.pc = pc]
        Same(pc) == [notes |-> notes, a |-> Go(pc)]
        Put(f, x, pc) == [notes |-> [notes EXCEPT ![a.i][f] = x], a |-> Go(pc)]
    IN
    CASE a.pc = "check" ->
            \* if (active_notes[i].adsr_state != ADSR_IDLE)
            IF v.adsr_state # ADSR_IDLE THEN Same("switch")
            ELSE [notes |-> notes, a |-> AuNextSlot(notes, a)]
      [] a.pc = "switch" -> Same(AdsrCase(v.adsr_state))
      [] a.pc = "idle_level" -> Put("adsr_level", Zero, "advance")
      \* case ADSR_ATTACK
      [] a.pc = "attack_inc_read" ->
            [notes |-> notes, a |-> [a EXCEPT !.t = v.adsr_timer + 1, !.pc = "attack_inc_write"]]
      [] a.pc = "attack_inc_write" -> Put("adsr_timer", a.t, "attack_level")
      [] a.pc = "attack_level" ->
            Put("adsr_level", AttackLevel(a.t, k),
                IF AttackDone(a.t, k) THEN "attack_state" ELSE "advance")
      [] a.pc = "attack_state" -> Put("adsr_state", ADSR_DECAY, "attack_timer")
      [] a.pc = "attack_timer" -> Put("adsr_timer", 0, "attack_full")
      [] a.pc = "attack_full" -> Put("adsr_level", One, "advance")
      \* case ADSR_DECAY
      [] a.pc = "decay_inc_read" ->
            [notes |-> notes, a |-> [a EXCEPT !.t = v.adsr_timer + 1, !.pc = "decay_inc_write"]]
      [] a.pc = "decay_inc_write" -> Put("adsr_timer", a.t, "decay_level")
      [] a.pc = "decay_level" ->
            Put("adsr_level", DecayLevel(a.t, k),
                IF DecayDone(a.t, k) THEN "decay_state" ELSE "advance")
      [] a.pc = "decay_state" -> Put("adsr_state", ADSR_SUSTAIN, "decay_sustain")
      [] a.pc = "decay_sustain" -> Put("adsr_level", ADSR_SUSTAIN_LEVEL, "advance")
      \* case ADSR_SUSTAIN
      [] a.pc = "sustain_level" -> Put("adsr_level", ADSR_SUSTAIN_LEVEL, "sustain_test")
      [] a.pc = "sustain_test" ->
            Same(IF ~v.key_held THEN "sustain_state" ELSE "advance")
      [] a.pc = "sustain_state" -> Put("adsr_state", ADSR_RELEASE, "sustain_timer")
      [] a.pc = "sustain_timer" -> Put("adsr_timer", 0, "advance")
      \* case ADSR_RELEASE
      [] a.pc = "release_inc_read" ->
            [notes |-> notes, a |-> [a EXCEPT !.t = v.adsr_timer + 1, !.pc = "release_inc_write"]]
      [] a.pc = "release_inc_write" -> Put("adsr_timer", a.t, "release_level")
      [] a.pc = "release_level" ->
            Put("adsr_level", ReleaseLevel(a.t, k),
                IF ReleaseDone(a.t, k) THEN "release_state" ELSE "advance")
      [] a.pc = "release_state" -> Put("adsr_state", ADSR_IDLE, "release_zero")
      [] a.pc = "release_zero" -> Put("adsr_level", Zero, "release_free")
      [] a.pc = "release_free" -> Put("note_index", -1, "advance")
      \* back in the loop of audio_task
      [] a.pc = "advance" ->
            [notes |-> [notes EXCEPT ![a.i].playback_position =
                                         AdvancePosition(v.playback_position)],
             a |-> AuNextSlot(notes, a)]
      [] OTHER -> [notes |-> notes, a |-> a]

\* One whole output frame mixed without interruption.
RECURSIVE RunFrame(_, _, _)
RunFrame(notes, a, k) ==
    LET r == AuStep(notes, a, k) IN
    IF r.a = AuIdle THEN r.notes ELSE RunFrame(r.notes, r.a, k)

MixFrame(notes, k) == RunFrame(notes, AuIdle, k)

(***************************************************************************)
(* Tracker: the module loader and the sequencer of modplayer_task.         *)
(***************************************************************************)
\* #define SAMPLE_RATE 22050: the native rate of the tracker.
SAMPLE_RATE == 22050
\* #define SAMPLE_RATE 44100 of the mixer: the rate of the audio sink.
I2S_SAMPLE_RATE == 44100
\* int16_t buffer[PROCESS_BUFFER_SIZE] of modplayer_task.
PROCESS_BUFFER_SIZE == 1024
\* Capacity of the ring buffer on the device.
MOD_BUFFER_SIZE == 2048
\* Sample descriptors in the header of a module.
MAX_SAMPLES == 31
\* Largest value of the C type int.
INT_MAX == 2147483647

\* Bytes that load_mod_embedded reads before the pattern block: the title,
\* the sample descriptors, song length and unused byte, the position table
\* and the format identifier.
MOD_HEADER_BYTES == 20 + MAX_SAMPLES * 30 + 2 + 128 + 4

\* The channels of a row in the model (NUM_CHANNELS, 4 on the device).
Channels == {0, 1}
\* The rows of a pattern in the model.
Rows == 0..(RowsBound - 1)
\* uint8_t positions[128] of MODFile.
MAX_POSITIONS == 128
\* The patterns that the module data of the model carries, and the indices
\* of the position table.
Patterns == {0, 1}
PositionIdx == 0..(MAX_POSITIONS - 1)

\* Bytes of one pattern in the module data: four bytes for each cell.
PatternBytes == RowsBound * Cardinality(Channels) * 4

\* The four bytes b0..b3 of a cell decoded as the loader does:
\* period = ((b0 & 0x0F) << 8) | b1, sample = (b0 & 0xF0) | (b2 >> 4),
\* effect = b2 & 0x0F, param = b3.
DecodeNote(b) ==
    [sample |-> (b[1] \div 16) * 16 + b[3] \div 16,
     period |-> (b[1] % 16) * 256 + b[2],
     effect |-> b[3] % 16,
     param |-> b[4]]

\* The bytes of a cell without note, sample and effect, and its Note.
EmptyBytes == <<0, 0, 0, 0>>
EmptyCell == [sample |-> 0, period |-> 0, effect |-> 0, param |-> 0]

\* The effect cells that the modules of the model carry: no effect, pattern
\* break, set speed (0 and 3), set tempo (32 and 250).
EffectBytes ==
    {EmptyBytes, <<0, 0, 13, 0>>, <<0, 0, 15, 0>>, <<0, 0, 15, 3>>, <<0, 0, 15, 32>>,
     <<0, 0, 15, 250>>}
EffectCells == {DecodeNote(b) : b \in EffectBytes}

\* The note cells of the model: sample 1 with period 214; sample 31 with
\* period 428 and set volume 32; set volume 200; the sample numbers 32 and
\* 255 that the two sample nibbles can also spell; sample 1 with period 214
\* and effect 0x3.
NoteBytes ==
    {<<0, 214, 16, 0>>, <<17, 172, 252, 32>>, <<0, 0, 12, 200>>, <<32, 0, 0, 0>>,
     <<240, 0, 240, 0>>, <<0, 214, 19, 0>>}

\* Division of C, rounding toward zero.
TruncDiv(a, b) == IF a >= 0 THEN a \div b ELSE -((-a) \div b)

MaxOf(S) == CHOOSE x \in S : \A y \in S : y <= x

MinOf(a, b) == IF a < b THEN a ELSE b

MinOfSet(S) == CHOOSE x \in S : \A y \in S : x <= y

\* mod->num_patterns (a uint8_t): the largest entry of the first song_length
\* positions, plus one.  The byte behind the table, positions[128], is
\* num_patterns itself and never raises it.
NumPatterns(song_length, positions) ==
    (MaxOf({0} \cup {positions[i] : i \in {j \in DOMAIN positions : j < song_length}}) + 1) % 256

\* The payload bytes (int8_t) behind the pattern block in the model: these
\* four, again and again.
Payload == <<100, -100, 127, -128>>
PayloadByte(offset) == Payload[(offset % 4) + 1]

\* The big-endian word counts in the sample descriptors of the module
\* data: length, repeat point and repeat length of the first sample and
\* the length of the last one; the other descriptors are empty.
SampleWords(len, rp, rl, last) ==
    [length |-> len, repeat_point |-> rp, repeat_length |-> rl, last |-> last]

\* read_big_endian_16(ptr) * 2 stored in a uint16_t field.
ByteCount(words) == (words * 2) % 65536

\* The byte counts that the loader stores for the word counts w.
SampleBytes(w) ==
    [length |-> ByteCount(w.length),
     repeat_point |-> ByteCount(w.repeat_point),
     repeat_length |-> ByteCount(w.repeat_length),
     last |-> ByteCount(w.last)]

\* data of a sample without payload.
NULL == -1

\* mod->samples of a module with the stored byte counts sb: the first
\* sample has volume 64, the last one volume 48.  data is the offset of the
\* payload behind the pattern block: the pointer moves on by the stored
\* length of each sample that has one.  The state keeps sb in place of the
\* table.
SampleTable(sb) ==
    [i \in 0..(MAX_SAMPLES - 1) |->
        LET length == IF i = 0 THEN sb.length
                      ELSE IF i = MAX_SAMPLES - 1 THEN sb.last ELSE 0
        IN [length |-> length,
            volume |-> IF i = 0 THEN 64 ELSE IF i = MAX_SAMPLES - 1 THEN 48 ELSE 0,
            repeat_point |-> IF i = 0 THEN sb.repeat_point ELSE 0,
            repeat_length |-> IF i = 0 THEN sb.repeat_length ELSE 0,
            data |-> IF length = 0 THEN NULL ELSE IF i = 0 THEN 0 ELSE sb.length]]

\* The module data as the loader reads it: empty rows but for row r0 of
\* pattern p0, which carries the cell bytes rc; the first sample has
\* sbytes bytes of payload and no loop; data_len bytes of the data are
\* there.
ModData(len, pos, p0, r0, rc, sbytes, dlen) ==
    [song_length |-> len,
     positions |-> pos,
     cells |-> [p \in Patterns |-> [r \in Rows |->
                   IF p = p0 /\ r = r0 THEN rc ELSE [c \in Channels |-> EmptyBytes]]],
     sample_words |-> SampleWords(sbytes \div 2, 0, 0, 0),
     data_len |-> dlen]

\* Offset behind the pattern block, and behind the sample payloads.
PatternEnd(d) == MOD_HEADER_BYTES + NumPatterns(d.song_length, d.positions) * PatternBytes
SampleEnd(d) == PatternEnd(d) + 2 * d.sample_words.length + 2 * d.sample_words.last

\* The position table whose first entries are those of f; the entries
\* behind them are zero and are not kept in the state.
PositionTable(f) == [i \in DOMAIN f |-> f[i]]

\* positions[i] for an index i of the table.
PositionEntry(positions, i) == IF i \in DOMAIN positions THEN positions[i] ELSE 0

\* The position tables of the model: song_length entries, the rest zero.
PositionTables(len) == {PositionTable(f) : f \in [0..(len - 1) -> Patterns]}

\* Complete modules whose one marked row carries cells of EffectBytes.
SeqModules ==
    UNION {{ModData(len, pos, p0, r0, rc, 0, MOD_HEADER_BYTES + NumPatterns(len, pos) * PatternBytes) :
               pos \in PositionTables(len), p0 \in Patterns, r0 \in Rows,
               rc \in [Channels -> EffectBytes]} : len \in {1, 2}}

\* Complete modules that set each tempo of effect 0xF in their first row.
TempoModules ==
    {ModData(1, PositionTable(<<>>), 0, 0,
             [c \in Channels |-> IF c = 0 THEN <<0, 0, 15, t>> ELSE EmptyBytes],
             0, MOD_HEADER_BYTES + PatternBytes) : t \in 32..255}

\* A module with sample payloads, complete or cut short inside the header,
\* inside the pattern block or inside the payloads.
CutModules ==
    {ModData(1, PositionTable(<<>>), 0, 0, [c \in Channels |-> EmptyBytes], 4, dlen) :
        dlen \in {100, MOD_HEADER_BYTES + 1, MOD_HEADER_BYTES + PatternBytes + 2,
                  MOD_HEADER_BYTES + PatternBytes + 4}}

\* Complete modules with sample payloads whose first row carries a note
\* cell in its first channel and, in half of them, sample 1 with period 214
\* in the other channels.
NoteModules ==
    {ModData(1, PositionTable(<<>>), 0, 0,
             [c \in Channels |-> IF c = 0 THEN b ELSE IF both THEN <<0, 214, 16, 0>> ELSE EmptyBytes],
             4, MOD_HEADER_BYTES + PatternBytes + 4) : b \in NoteBytes, both \in BOOLEAN}

\* The sample descriptors of the model, as word counts, each with the cell
\* that plays it: a sample of 4 bytes that loops over all of them, over its
\* second half only (a loop of 2 bytes does not count as one) and with a
\* loop that ends behind it, at period 214; an empty sample with a loop; the
\* longest sample that fits 16 bits of bytes, at period 1 and, like the one
\* that does not fit, followed by a last sample of 2 bytes which is played;
\* a repeat point beyond 16 bits of bytes, at period 4095.
PlayCases ==
    {<<SampleWords(2, 0, 2, 0), <<0, 214, 16, 0>>>>,
     <<SampleWords(2, 1, 1, 0), <<0, 214, 16, 0>>>>,
     <<SampleWords(2, 1, 2, 0), <<0, 214, 16, 0>>>>,
     <<SampleWords(0, 0, 2, 0), <<0, 214, 16, 0>>>>,
     <<SampleWords(32767, 0, 0, 1), <<0, 1, 16, 0>>>>,
     <<SampleWords(32767, 0, 0, 1), <<16, 214, 240, 0>>>>,
     <<SampleWords(32770, 0, 0, 1), <<16, 214, 240, 0>>>>,
     <<SampleWords(2, 32768, 2, 0), <<15, 255, 16, 0>>>>}

\* Complete modules with these descriptors whose first row plays the
\* sample in its first channel.
LoopModules ==
    {[ModData(1, PositionTable(<<>>), 0, 0,
              [c \in Channels |-> IF c = 0 THEN pc[2] ELSE EmptyBytes], 0,
              MOD_HEADER_BYTES + PatternBytes + 2 * pc[1].length + 2 * pc[1].last)
         EXCEPT !.sample_words = pc[1]] : pc \in PlayCases}

\* Modules at the edges of the header fields: song length 0 with a first
\* position entry of 1, a song length above the size of the position
\* table (played at one tick per row), and a position entry of 255.
EdgeModules ==
    {ModData(0, PositionTable([i \in {0} |-> 1]), 0, 0, [c \in Channels |-> EmptyBytes],
             0, MOD_HEADER_BYTES + PatternBytes),
     ModData(MAX_POSITIONS + 1, PositionTable(<<>>), 0, 0,
             [c \in Channels |-> IF c = 0 THEN <<0, 0, 15, 1>> ELSE EmptyBytes],
             0, MOD_HEADER_BYTES + PatternBytes),
     ModData(1, PositionTable([i \in {0} |-> 255]), 0, 0, [c \in Channels |-> EmptyBytes],
             0, MOD_HEADER_BYTES)}

\* MODFile mod = {0}.
NoMod == [song_length |-> 0, positions |-> PositionTable(<<>>),
          num_patterns |-> 0, patterns |-> <<>>,
          sample_bytes |-> SampleBytes(SampleWords(0, 0, 0, 0)), sample_end |-> 0]

\* calculate_tick_samples: the products of int operands are formed without
\* overflow and the divisor is not zero.
MulFits(a, b) == a = 0 \/ b <= INT_MAX \div a
TickSamplesDefined(tempo) ==
    /\ MulFits(2500, SAMPLE_RATE)
    /\ tempo > 0
    /\ MulFits(tempo, 1000)

\* Mutant of calculate_tick_samples: the milliseconds of a tick are rounded
\* first.
calculate_tick_samples_ms(tempo) == ((2500 \div tempo) * SAMPLE_RATE) \div 1000

\* return (2500 * SAMPLE_RATE) / (tempo * 1000);
calculate_tick_samples(tempo) == (2500 * SAMPLE_RATE) \div (tempo * 1000)

\* A uint32_t sample_pos in 16.16 fixed point: hi is sample_pos >> 16, lo
\* the fraction sample_pos & 0xFFFF.
SamplePos(hi, lo) == [hi |-> hi, lo |-> lo]

\* Mutant of ChannelIdle: the channels start on sample 1 at period 214.
ChannelIdle_playing ==
    [period |-> 214, sample_num |-> 1, volume |-> 64, sample_pos |-> SamplePos(0, 0),
     sample_increment |-> 49714, effect |-> 0, param |-> 0]

\* ChannelState channels[NUM_CHANNELS] = {0}.
ChannelIdle ==
    [period |-> 0, sample_num |-> 0, volume |-> 0, sample_pos |-> SamplePos(0, 0),
     sample_increment |-> 0, effect |-> 0, param |-> 0]

\* The locals of modplayer_task at the start of playback; played is the
\* (position, row) last handed to process_row, looped tells that position
\* has wrapped, read_end is the offset behind the last byte of the module
\* data that has been read.  row_inside and sample_inside tell whether the
\* last process_row addressed a row of the pattern block and descriptors of
\* mod->samples; buffer_first and buffer_nonzero describe the buffer of
\* the last process_tick: its first sample, and whether any sample of it is
\* not zero, and whether it read its bytes inside the samples; end_missed
\* tells that some process_tick left a sample without loop playing behind
\* its end.
\* stop_called tells that modplayer_stop has been called.
TrkStart ==
    [pc |-> "load", position |-> 0, row |-> 0, ticks_per_row |-> 5, current_tick |-> 0,
     tempo |-> 125, samples_per_tick |-> calculate_tick_samples(125),
     samples_to_generate |-> 0, delay_ms |-> 0,
     channels |-> [c \in Channels |-> ChannelIdle],
     played |-> <<-1, -1>>, looped |-> FALSE, ticks |-> 0, read_end |-> 0,
     row_inside |-> TRUE, sample_inside |-> TRUE,
     buffer_first |-> 0, buffer_nonzero |-> FALSE, read_inside |-> TRUE,
     end_missed |-> FALSE, stop_called |-> FALSE]

\* The pattern block as the loader decodes it; behind the patterns of the
\* module data it reads whatever bytes follow.
DecodePatterns(d, np) ==
    [p \in 0..(np - 1) |-> [r \in Rows |-> [c \in Channels |->
        IF p \in DOMAIN d.cells THEN DecodeNote(d.cells[p][r][c]) ELSE EmptyCell]]]

\* load_mod_embedded and the start of modplayer_task: the header and the
\* pattern block are read whatever data_len is; the load fails only when
\* malloc returns NULL, and the task then deletes itself.
TrkLoad ==
    /\ trk.pc = "load"
    /\ \E malloc_ok \in BOOLEAN :
          LET np == NumPatterns(mod_data.song_length, mod_data.positions) IN
          IF malloc_ok
          THEN /\ mod' = [song_length |-> mod_data.song_length,
                          positions |-> mod_data.positions,
                          num_patterns |-> np,
                          patterns |-> DecodePatterns(mod_data, np),
                          sample_bytes |-> SampleBytes(mod_data.sample_words),
                          sample_end |-> PatternEnd(mod_data)
                                            + ByteCount(mod_data.sample_words.length)
                                            + ByteCount(mod_data.sample_words.last)]
               /\ mod_player_running' = TRUE
               /\ trk' = [TrkStart EXCEPT !.pc = "head",
                                          !.read_end = MOD_HEADER_BYTES + np * PatternBytes,
                                          !.stop_called = trk.stop_called]
          ELSE /\ mod' = [NoMod EXCEPT !.song_length = mod_data.song_length,
                                       !.positions = mod_data.positions,
                                       !.num_patterns = np,
                                       !.sample_bytes = SampleBytes(mod_data.sample_words)]
               /\ trk' = [trk EXCEPT !.pc = "deleted", !.read_end = MOD_HEADER_BYTES]
               /\ UNCHANGED mod_player_running
    /\ UNCHANGED <<mod_data, pace, out>>
    /\ UNCHANGED <<ringVars, voiceVars, soundVars>>

\* process_row addresses a row of the pattern block: position is an index of
\* the position table and positions[position] a pattern of the block.  The
\* byte behind the table is num_patterns, the index behind the block.
RowInside(m, position) ==
    /\ position \in PositionIdx
    /\ PositionEntry(m.positions, position) \in DOMAIN m.patterns

\* What may lie at an address outside the pattern block.
StrayNotes ==
    {[c \in Channels |-> EmptyCell], [c \in Channels |-> DecodeNote(<<255, 255, 240, 0>>)]}

\* The Notes of the row that process_row reads.
RowNotes(m, position, row) ==
    IF RowInside(m, position) THEN {m.patterns[PositionEntry(m.positions, position)][row]}
    ELSE StrayNotes

\* mod->samples[note->sample-1] is a descriptor of the module for each Note
\* of the row that selects a sample.
SampleInside(notes) ==
    \A c \in Channels : notes[c].sample > 0 => notes[c].sample - 1 < MAX_SAMPLES

\* The volume bytes that may lie behind the descriptors.
StrayVolumes(notes) == IF SampleInside(notes) THEN {0} ELSE {0, 255}

\* q + floor(r * 2^k / d), formed by doubling so that no product leaves the
\* range of int.
RECURSIVE ScaledDiv(_, _, _, _)
ScaledDiv(q, r, d, k) ==
    IF k = 0 THEN q ELSE ScaledDiv(2 * q + (2 * r) \div d, (2 * r) % d, d, k - 1)

\* Mutant of SampleIncrement: the increment for the rate of the audio sink.
SampleIncrement_sink(period) ==
    LET d == period * I2S_SAMPLE_RATE IN ScaledDiv(14318181 \div d, 14318181 % d, d, 14)

\* (uint32_t)((period_to_freq(period) * 65536.0f) / SAMPLE_RATE) with
\* period_to_freq(period) = 7159090.5f / (period * 2), that is
\* floor(14318181 * 2^14 / (period * SAMPLE_RATE)).
SampleIncrement(period) ==
    LET d == period * SAMPLE_RATE IN ScaledDiv(14318181 \div d, 14318181 % d, d, 14)

\* process_row on the Notes of a row; stray is the volume byte found behind
\* the descriptors when a sample number is above MAX_SAMPLES.
process_row(m, chs, notes, stray) ==
    [c \in Channels |->
        LET note == notes[c]
            picked == IF note.sample > 0
                      THEN [chs[c] EXCEPT
                              !.sample_num = note.sample,
                              !.volume = IF note.sample - 1 < MAX_SAMPLES
                                         THEN SampleTable(m.sample_bytes)[note.sample - 1].volume
                                         ELSE stray]
                      ELSE chs[c]
            started == IF note.period # 0 /\ note.effect # 3
                       THEN [picked EXCEPT !.period = note.period,
                                           !.sample_pos = SamplePos(0, 0),
                                           !.sample_increment = SampleIncrement(note.period)]
                       ELSE picked
            saved == [started EXCEPT !.effect = note.effect, !.param = note.param]
        IN IF note.effect = 12 /\ note.param <= 64
           THEN [saved EXCEPT !.volume = note.param]
           ELSE saved]

\* The conditions of process_tick under which a channel adds to a sample.
Sounds(m, ch) ==
    /\ ch.period > 0
    /\ ch.sample_num > 0
    /\ ch.sample_num - 1 < MAX_SAMPLES
    /\ SampleTable(m.sample_bytes)[ch.sample_num - 1].data # NULL
    /\ SampleTable(m.sample_bytes)[ch.sample_num - 1].length > 0
    /\ ch.sample_pos.hi < SampleTable(m.sample_bytes)[ch.sample_num - 1].length

\* ((sample_val * channels[c].volume) / 64) * 32 of a channel that sounds.
ChannelShare(m, ch) ==
    IF Sounds(m, ch)
    THEN LET smp == SampleTable(m.sample_bytes)[ch.sample_num - 1]
         IN TruncDiv(PayloadByte(smp.data + ch.sample_pos.hi) * ch.volume, 64) * 32
    ELSE 0

\* channels[c].sample_pos += channels[c].sample_increment, in uint32_t.
Advanced(ch) ==
    LET lo == ch.sample_pos.lo + (ch.sample_increment % 65536)
    IN SamplePos((ch.sample_pos.hi + (ch.sample_increment \div 65536) + (lo \div 65536)) % 65536,
                 lo % 65536)

\* The channel after it has added to a sample: sample_pos advances, a loop
\* goes back to repeat_point, and the end of a sample without loop stops it.
\* repeat_point << 16 shifts an int; the builds keep its low 32 bits also
\* for a repeat_point of 32768 or more.
ChannelAfter(m, ch) ==
    IF ~Sounds(m, ch) THEN ch
    ELSE LET smp == SampleTable(m.sample_bytes)[ch.sample_num - 1]
             pos == Advanced(ch)
         IN IF smp.repeat_length > 2
            THEN IF pos.hi >= smp.repeat_point + smp.repeat_length
                 THEN [ch EXCEPT !.sample_pos = SamplePos(smp.repeat_point, 0)]
                 ELSE [ch EXCEPT !.sample_pos = pos]
            ELSE IF pos.hi >= smp.length
                 THEN [ch EXCEPT !.sample_pos = SamplePos(0, 0), !.period = 0]
                 ELSE [ch EXCEPT !.sample_pos = pos]

RECURSIVE SumShares(_, _, _)
SumShares(m, chs, S) ==
    IF S = {} THEN 0
    ELSE LET c == CHOOSE x \in S : TRUE
         IN ChannelShare(m, chs[c]) + SumShares(m, chs, S \ {c})

\* if (mixed > 32767) mixed = 32767; if (mixed < -32768) mixed = -32768;
ClampMixed(mixed) == IF mixed > 32767 THEN 32767 ELSE IF mixed < -32768 THEN -32768 ELSE mixed

\* What one sample of process_tick adds to the record b of the buffer:
\* whether it has a sample yet (begun),
\* its first sample, whether a sample of it is not zero, whether every byte
\* was read at an index below the length of its sample, and whether a
\* sample without loop was left playing although the position, advanced by
\* the increment, lay at or behind its end.
TickRecord(m, chs, b, mixed) ==
    LET smp(c) == SampleTable(m.sample_bytes)[chs[c].sample_num - 1]
        sounding == {c \in Channels : Sounds(m, chs[c])}
        lo(c) == chs[c].sample_pos.lo + (chs[c].sample_increment % 65536)
        hi(c) == chs[c].sample_pos.hi + (chs[c].sample_increment \div 65536) + (lo(c) \div 65536)
    IN [begun |-> TRUE,
        first |-> IF b.begun THEN b.first ELSE mixed,
        nonzero |-> b.nonzero \/ mixed # 0,
        read_inside |-> b.read_inside
                          /\ \A c \in sounding : chs[c].sample_pos.hi \in 0..(smp(c).length - 1),
        end_missed |-> b.end_missed
                         \/ \E c \in sounding :
                               /\ smp(c).repeat_length <= 2
                               /\ hi(c) >= smp(c).length
                               /\ ChannelAfter(m, chs[c]).period # 0]

\* The record of a buffer before its first sample.
TickStart ==
    [begun |-> FALSE, first |-> 0, nonzero |-> FALSE, read_inside |-> TRUE,
     end_missed |-> FALSE]

\* The channels after the loop over the channels S has gone over them.
RECURSIVE ChannelsAfter(_, _, _)
ChannelsAfter(m, chs, S) ==
    IF S = {} THEN chs
    ELSE LET c == CHOOSE x \in S : TRUE
         IN ChannelsAfter(m, [chs EXCEPT ![c] = ChannelAfter(m, @)], S \ {c})

\* One pass of the loop over the samples of the buffer: t holds the
\* channels and the record of the buffer.
TickSample(m, t) ==
    [channels |-> ChannelsAfter(m, t.channels, Channels),
     buffer |-> TickRecord(m, t.channels, t.buffer,
                           ClampMixed(SumShares(m, t.channels, Channels)))]

\* process_tick on the next n samples of a buffer: the first half of them,
\* then the rest.  Once no channel sounds the rest of the buffer is zero and
\* the channels stay as they are.
RECURSIVE process_tick(_, _, _)
process_tick(m, t, n) ==
    IF n <= 0 \/ \A c \in Channels : ~Sounds(m, t.channels[c]) THEN t
    ELSE IF n = 1 THEN TickSample(m, t)
    ELSE process_tick(m, process_tick(m, t, n \div 2), n - (n \div 2))

\* Mutant of RowEffects: a pattern break leaves the loop and the row alone.
RECURSIVE RowEffects_stay(_, _, _)
RowEffects_stay(ch, c, st) ==
    IF c \notin Channels THEN st
    ELSE IF ch[c].effect = 13
         THEN st
    ELSE IF ch[c].effect = 15 /\ ch[c].param <= 31
         THEN RowEffects_stay(ch, c + 1,
                              IF ch[c].param > 0
                              THEN [st EXCEPT !.ticks_per_row = ch[c].param] ELSE st)
    ELSE IF ch[c].effect = 15 /\ ch[c].param >= 32
         THEN RowEffects_stay(ch, c + 1,
                              [st EXCEPT !.tempo = ch[c].param,
                                         !.samples_per_tick = calculate_tick_samples(ch[c].param)])
    ELSE RowEffects_stay(ch, c + 1, st)

\* The effect loop of tick 0: a pattern break leaves the loop, set speed
\* and set tempo go on with the next channel.
RECURSIVE RowEffects(_, _, _)
RowEffects(ch, c, st) ==
    IF c \notin Channels THEN st
    ELSE IF ch[c].effect = 13
         THEN [st EXCEPT !.row = RowsBound - 1]
    ELSE IF ch[c].effect = 15 /\ ch[c].param <= 31
         THEN RowEffects(ch, c + 1,
                         IF ch[c].param > 0
                         THEN [st EXCEPT !.ticks_per_row = ch[c].param] ELSE st)
    ELSE IF ch[c].effect = 15 /\ ch[c].param >= 32
         THEN RowEffects(ch, c + 1,
                         [st EXCEPT !.tempo = ch[c].param,
                                    !.samples_per_tick = calculate_tick_samples(ch[c].param)])
    ELSE RowEffects(ch, c + 1, st)

\* while (mod_player_running), current_tick == 0: the row and its effects.
TrkRow ==
    /\ trk.pc = "head"
    /\ mod_player_running
    /\ trk.current_tick = 0
    /\ \E notes \in RowNotes(mod, trk.position, trk.row) :
       \E stray \in StrayVolumes(notes) :
          LET ch == process_row(mod, trk.channels, notes, stray) IN
          trk' = [RowEffects(ch, 0, trk) EXCEPT !.channels = ch,
                                                 !.played = <<trk.position, trk.row>>,
                                                 !.row_inside = RowInside(mod, trk.position),
                                                 !.sample_inside = SampleInside(notes),
                                                 !.pc = "tick"]
    /\ UNCHANGED <<mod_data, mod, mod_player_running, pace, out>>
    /\ UNCHANGED <<ringVars, voiceVars, soundVars>>

\* while (mod_player_running), current_tick != 0: no row is processed.
TrkSameRow ==
    /\ trk.pc = "head"
    /\ mod_player_running
    /\ trk.current_tick # 0
    /\ trk' = [trk EXCEPT !.pc = "tick"]
    /\ UNCHANGED <<mod_data, mod, mod_player_running, pace, out>>
    /\ UNCHANGED <<ringVars, voiceVars, soundVars>>

\* Mutant of WrapPosition: the song stays at its last position.
WrapPosition_last(position, song_length) ==
    IF position >= song_length THEN song_length - 1 ELSE position

\* if (position >= mod.song_length) position = 0;
WrapPosition(position, song_length) ==
    IF position >= song_length THEN 0 ELSE position

\* Mutant of AdvanceTick: the row ends one tick late.
AdvanceTick_late(t, song_length) ==
    IF t.current_tick + 1 > t.ticks_per_row
    THEN IF t.row + 1 >= RowsBound
         THEN [t EXCEPT !.current_tick = 0, !.row = 0,
                        !.position = WrapPosition(t.position + 1, song_length),
                        !.looped = t.looped \/ t.position + 1 >= song_length]
         ELSE [t EXCEPT !.current_tick = 0, !.row = t.row + 1]
    ELSE [t EXCEPT !.current_tick = t.current_tick + 1]

\* current_tick++ and the carries into row and position.
AdvanceTick(t, song_length) ==
    IF t.current_tick + 1 >= t.ticks_per_row
    THEN IF t.row + 1 >= RowsBound
         THEN [t EXCEPT !.current_tick = 0, !.row = 0,
                        !.position = WrapPosition(t.position + 1, song_length),
                        !.looped = t.looped \/ t.position + 1 >= song_length]
         ELSE [t EXCEPT !.current_tick = 0, !.row = t.row + 1]
    ELSE [t EXCEPT !.current_tick = t.current_tick + 1]

\* Samples that the mixer takes from the ring buffer in ms milliseconds, the
\* last one counted when it has begun.
MixerConsumes(ms) == (I2S_SAMPLE_RATE * ms + 999) \div 1000

\* One tick: samples_to_generate samples are generated and offered twice
\* each to the ring buffer, which drops what does not fit; then the tick
\* counter is advanced and delay_ms computed.
TrkTick ==
    /\ trk.pc = "tick"
    /\ LET stg == IF trk.samples_per_tick < PROCESS_BUFFER_SIZE
                  THEN trk.samples_per_tick ELSE PROCESS_BUFFER_SIZE
           stored == MinOf(2 * stg, MOD_BUFFER_SIZE - 1 - pace.fill)
           delay == (stg * 1000) \div SAMPLE_RATE
           tick == process_tick(mod, [channels |-> trk.channels, buffer |-> TickStart], stg)
       IN /\ pace' = [fill |-> pace.fill + stored,
                      dropped |-> pace.dropped \/ stored < 2 * stg]
          /\ trk' = [AdvanceTick(trk, mod.song_length) EXCEPT
                        !.channels = tick.channels,
                        !.buffer_first = tick.buffer.first,
                        !.buffer_nonzero = tick.buffer.nonzero,
                        !.read_inside = tick.buffer.read_inside,
                        !.end_missed = trk.end_missed \/ tick.buffer.end_missed,
                        !.samples_to_generate = stg,
                        !.delay_ms = delay,
                        !.ticks = MinOf(trk.ticks + 1, 1),
                        !.pc = IF delay > 0 THEN "delay" ELSE "head"]
    /\ UNCHANGED <<mod_data, mod, mod_player_running, out>>
    /\ UNCHANGED <<ringVars, voiceVars, soundVars>>

\* vTaskDelay(pdMS_TO_TICKS(delay_ms)): the mixer goes on reading at the rate
\* of the audio sink while the tracker is suspended.
TrkDelay ==
    /\ trk.pc = "delay"
    /\ pace' = [pace EXCEPT !.fill = pace.fill - MinOf(pace.fill, MixerConsumes(trk.delay_ms))]
    /\ trk' = [trk EXCEPT !.pc = "head"]
    /\ UNCHANGED <<mod_data, mod, mod_player_running, out>>
    /\ UNCHANGED <<ringVars, voiceVars, soundVars>>

\* The loop is left: free_mod_file, mod_player_running = false, vTaskDelete.
TrkExit ==
    /\ trk.pc = "head"
    /\ ~mod_player_running
    /\ mod' = [mod EXCEPT !.patterns = <<>>]
    /\ mod_player_running' = FALSE
    /\ trk' = [trk EXCEPT !.pc = "stopped"]
    /\ UNCHANGED <<mod_data, pace, out>>
    /\ UNCHANGED <<ringVars, voiceVars, soundVars>>

\* modplayer_stop, called at any moment: mod_player_running = false.
ModplayerStop ==
    /\ mod_player_running' = FALSE
    /\ trk' = [trk EXCEPT !.stop_called = TRUE]
    /\ UNCHANGED <<mod_data, mod, pace, out>>
    /\ UNCHANGED <<ringVars, voiceVars, soundVars>>

TrkStep == TrkLoad \/ TrkRow \/ TrkSameRow \/ TrkTick \/ TrkDelay \/ TrkExit

\* The tracker before modplayer_task is created, with the module data d.
InitTracker(d) ==
    /\ mod_data = d
    /\ mod = NoMod
    /\ mod_player_running = FALSE
    /\ trk = TrkStart
    /\ pace = [fill |-> 0, dropped |-> FALSE]

\* The module that is not played in the programs without the tracker.
SilentModule ==
    ModData(1, PositionTable(<<>>), 0, 0, [c \in Channels |-> EmptyBytes], 0,
            MOD_HEADER_BYTES + PatternBytes)

(***************************************************************************)
(* The triggers of main.c: the main loop raises sound_trigger[i], the      *)
(* audio task tests each flag, starts the sound and clears the flag, then  *)
(* mixes one output buffer.  A position counts whole output buffers.       *)
(***************************************************************************)
SoundIds == 0..(SoundsBound - 1)
SoundSlotIds == 0..(SoundSlots - 1)

\* bounce_lengths[i], in output buffers: each sound is longer than the one
\* before.
bounce_lengths == [i \in SoundIds |-> i + 1]

\* A slot of the zeroed static array; sample_data -1 is the null pointer,
\* sample_data i is bounce_samples[i], the volume is in thousandths.
SoundOff ==
    [sample_data |-> -1, sample_length |-> 0, playback_position |-> 0, volume |-> 0,
     active |-> FALSE]

InitSounds ==
    /\ sound_trigger = [i \in SoundIds |-> FALSE]
    /\ active_sounds = [slot \in SoundSlotIds |-> SoundOff]
    /\ mx = [pc |-> "test", i |-> 0]
    /\ raised = [i \in SoundIds |-> FALSE]

\* app_main on a bounce of ball i: sound_trigger[i] = true.
RaiseTrigger(i) ==
    /\ sound_trigger' = [sound_trigger EXCEPT ![i] = TRUE]
    /\ raised' = [raised EXCEPT ![i] = TRUE]
    /\ UNCHANGED <<active_sounds, mx>>
    /\ UNCHANGED <<ringVars, voiceVars, trackVars>>

\* The end of one round of for (int i = 0; i < 5; i++).
NextTrigger(i) ==
    IF i + 1 < SoundsBound THEN [pc |-> "test", i |-> i + 1] ELSE [pc |-> "mix", i |-> 0]

\* if (sound_trigger[i])
TriggerTest ==
    /\ mx.pc = "test"
    /\ mx' = IF sound_trigger[mx.i] THEN [mx EXCEPT !.pc = "start"] ELSE NextTrigger(mx.i)
    /\ UNCHANGED <<sound_trigger, active_sounds, raised>>
    /\ UNCHANGED <<ringVars, voiceVars, trackVars>>

\* The slot that the search takes: the first one that is not active or
\* holds bounce_samples[i]; no slot when there is none.
FindSlot(sounds, i) ==
    LET fit == {slot \in DOMAIN sounds : ~sounds[slot].active \/ sounds[slot].sample_data = i}
    IN IF fit # {} THEN {MinOfSet(fit)} ELSE {}

\* The slot search and the start of sound i at position 0.
TriggerStart ==
    /\ mx.pc = "start"
    /\ active_sounds' =
          [slot \in DOMAIN active_sounds |->
              IF slot \in FindSlot(active_sounds, mx.i)
              THEN [sample_data |-> mx.i, sample_length |-> bounce_lengths[mx.i],
                    playback_position |-> 0, volume |-> 100, active |-> TRUE]
              ELSE active_sounds[slot]]
    /\ raised' = [raised EXCEPT ![mx.i] = FALSE]
    /\ mx' = [mx EXCEPT !.pc = "clear"]
    /\ UNCHANGED sound_trigger
    /\ UNCHANGED <<ringVars, voiceVars, trackVars>>

\* sound_trigger[i] = false
TriggerClear ==
    /\ mx.pc = "clear"
    /\ sound_trigger' = [sound_trigger EXCEPT ![mx.i] = FALSE]
    /\ mx' = NextTrigger(mx.i)
    /\ UNCHANGED <<active_sounds, raised>>
    /\ UNCHANGED <<ringVars, voiceVars, trackVars>>

\* The mixing of one output buffer and its write: every active sound moves
\* on and is switched off at its end.
MixBuffer ==
    /\ mx.pc = "mix"
    /\ active_sounds' =
          [slot \in DOMAIN active_sounds |->
              LET snd == active_sounds[slot] IN
              IF ~snd.active THEN snd
              ELSE [snd EXCEPT !.playback_position = snd.playback_position + 1,
                               !.active = snd.playback_position + 1 < snd.sample_length]]
    /\ mx' = [pc |-> "test", i |-> 0]
    /\ UNCHANGED <<sound_trigger, raised>>
    /\ UNCHANGED <<ringVars, voiceVars, trackVars>>

SoundStep == TriggerTest \/ TriggerStart \/ TriggerClear \/ MixBuffer

(***************************************************************************)
(* The output stage of the two audio_task loops: the mix of one frame is   *)
(* clipped, converted to int16_t and, when the buffer is full, handed to   *)
(* i2s_channel_write.  A float is kept in thousandths, the normalization   *)
(* factor in millionths.                                                   *)
(***************************************************************************)
\* mod_sample / 32768.0f and sample / 32768.0f, in thousandths.
SampleToFloat(s) == TruncDiv(s * 1000, 32768)

\* 1.0f / sqrtf((float)active_count) in millionths, active_count 1..13.
TargetNormalization ==
    <<1000000, 707107, 577350, 500000, 447214, 408248, 377964,
      353553, 333333, 316228, 301511, 288675, 277350>>

\* Mutant of Normalize: alpha is 0.001.
Normalize_slow(norm, active_count) ==
    IF active_count > 0
    THEN norm + TruncDiv(TargetNormalization[active_count] - norm, 1000)
    ELSE 1000000

\* current_normalization += alpha * (target_normalization - current_normalization)
\* with alpha 0.01, and the reset to 1.0f when no note is active.
Normalize(norm, active_count) ==
    IF active_count > 0
    THEN norm + TruncDiv(TargetNormalization[active_count] - norm, 100)
    ELSE 1000000

\* Mutant of ClipMix: the mix is not clipped.
ClipMix_off(mix) == mix

\* fminf(1.0f, fmaxf(-1.0f, mix))
ClipMix(mix) == IF mix > 1000 THEN 1000 ELSE IF mix < -1000 THEN -1000 ELSE mix

\* (int16_t)(mix * 32767.0f): the value when it fits; the conversion of a
\* value that does not fit is undefined, the builds wrap or saturate it.
Int16Outcomes(mix) ==
    LET x == TruncDiv(mix * 32767, 1000) IN
    IF x \in -32768..32767 THEN {x}
    ELSE {((x + 32768) % 65536) - 32768, IF x > 0 THEN 32767 ELSE -32768}

\* The numbers of sounding voices and the sums of their enveloped samples
\* (each within -1..1) that the keyboard mixer is given in the model.
ActiveCounts == {0, 1, 2, MAX_ACTIVE_NOTES}
VoiceSums(active_count) == {-1000 * active_count, -300 * active_count, 0, 1000 * active_count}

\* The sums of the active sounds of the trigger-driven mixer, each sample
\* times its volume of 0.1, up to MAX_ACTIVE_SOUNDS of them.
SoundSums == {-500, 500}

\* audio_task at the head of its loop, in the program named by task.
OutStart(task) ==
    [task |-> task, pc |-> "mix", frame |-> 0, frames |-> 0,
     mix |-> 0, sample |-> 0, current_normalization |-> 1000000,
     failed |-> FALSE, after_error |-> FALSE]

\* The frame that is mixed: its unclipped mix, the sample written to both
\* channels, and whether a write had reported an error before.
OutFrame(o, mix, sample) ==
    [o EXCEPT !.mix = mix, !.sample = sample,
              !.frame = o.frame + 1, !.frames = o.frames + 1,
              !.pc = IF o.frame + 1 >= FramesBound THEN "write" ELSE "mix",
              !.after_error = o.after_error \/ o.failed]

\* One frame of audio_task in main.c: the ring-buffer sample when there is
\* one, plus the active sounds, clipped and converted.
SoundsFrame ==
    /\ out.task = "main"
    /\ out.pc = "mix"
    /\ out.frames < MaxFrames
    /\ rd = RdIdle
    /\ \E sounds \in SoundSums :
          LET has == ~RingEmpty(mod_read_pos, mod_write_pos)
              mod_sample == IF has THEN mod_ring_buffer[mod_read_pos] ELSE 0
              mix == SampleToFloat(mod_sample) + sounds
          IN /\ mod_read_pos' = IF has THEN NextPos(mod_read_pos) ELSE mod_read_pos
             /\ consumed' = IF has THEN Append(consumed, mod_sample) ELSE consumed
             /\ \E sample \in Int16Outcomes(ClipMix(mix)) : out' = OutFrame(out, mix, sample)
    /\ UNCHANGED <<mod_ring_buffer, mod_write_pos, wr, rd, produced>>
    /\ UNCHANGED <<mod_data, mod, mod_player_running, trk, pace>>
    /\ UNCHANGED <<voiceVars, soundVars>>

\* One frame of audio_task of the keyboard: the sum of the sounding voices
\* times the smoothed normalization factor, clipped and converted.
KeyboardFrame ==
    /\ out.task = "keyboard"
    /\ out.pc = "mix"
    /\ out.frames < MaxFrames
    /\ \E active_count \in ActiveCounts : \E sum \in VoiceSums(active_count) :
          LET norm == Normalize(out.current_normalization, active_count)
              mix == IF active_count > 0 THEN TruncDiv(sum * (norm \div 100), 10000) ELSE sum
          IN \E sample \in Int16Outcomes(ClipMix(mix)) :
                out' = [OutFrame(out, mix, sample) EXCEPT !.current_normalization = norm]
    /\ UNCHANGED <<mod_data, mod, mod_player_running, trk, pace>>
    /\ UNCHANGED <<ringVars, voiceVars, soundVars>>

\* i2s_channel_write(...): its esp_err_t is not looked at, the loop goes on
\* with the next buffer.
I2sWrite ==
    /\ out.pc = "write"
    /\ \E err \in {"ESP_OK", "ESP_FAIL"} :
          out' = [out EXCEPT !.pc = "mix", !.frame = 0,
                             !.failed = out.failed \/ err # "ESP_OK"]
    /\ UNCHANGED <<mod_data, mod, mod_player_running, trk, pace>>
    /\ UNCHANGED <<ringVars, voiceVars, soundVars>>

(***************************************************************************)
(* The keyboard with its two tasks running concurrently: the input loop of *)
(* app_main and audio_task, each taking one step at a time.                *)
(***************************************************************************)
\* The keys that are played while the tasks are followed step by step.
RaceKeys == {0}

\* note_keys_pressed[note_idx] = true; start_note(note_idx);
KeyPress(n) ==
    /\ inp.pc = "idle"
    /\ note_keys_pressed' = [note_keys_pressed EXCEPT ![n] = TRUE]
    /\ inp' = StartEntry(n, cfg)
    /\ UNCHANGED <<active_notes, cfg, au, since_on, since_off>>
    /\ UNCHANGED <<ringVars, trackVars, soundVars>>

\* note_keys_pressed[note_idx] = false; stop_note(note_idx);
KeyRelease(n) ==
    /\ inp.pc = "idle"
    /\ note_keys_pressed' = [note_keys_pressed EXCEPT ![n] = FALSE]
    /\ inp' = StopEntry(n, cfg)
    /\ UNCHANGED <<active_notes, cfg, au, since_on, since_off>>
    /\ UNCHANGED <<ringVars, trackVars, soundVars>>

InputStep ==
    /\ LET r == InStep(active_notes, inp) IN
          /\ active_notes' = r.notes
          /\ inp' = r.c
    /\ UNCHANGED <<note_keys_pressed, cfg, au, since_on, since_off>>
    /\ UNCHANGED <<ringVars, trackVars, soundVars>>

StartPcs ==
    {"start_scan", "start_note_index", "start_playback_position", "start_playback_speed",
     "start_adsr_state", "start_adsr_timer", "start_adsr_level", "start_key_held"}

\* The input loop takes the next step of start_note.
StartNoteStep == inp.pc \in StartPcs /\ InputStep

\* The input loop takes the next step of stop_note.
StopNoteStep == inp.pc \in {"stop_test", "stop_write"} /\ InputStep

AudioStep ==
    /\ LET r == AuStep(active_notes, au, cfg) IN
          /\ active_notes' = r.notes
          /\ au' = r.a
    /\ UNCHANGED <<note_keys_pressed, cfg, inp, since_on, since_off>>
    /\ UNCHANGED <<ringVars, trackVars, soundVars>>

\* audio_task tests the state of the next slot.
AudioCheck == au.pc = "check" /\ AudioStep

\* audio_task takes the next step of update_adsr.
AudioUpdateAdsr == au.pc \in AdsrPcs /\ AudioStep

\* audio_task advances the playback position of the slot.
AudioAdvance == au.pc = "advance" /\ AudioStep

\* app_main: every slot free, no key pressed, both tasks at their loop heads.
InitKeyboard(k, nslots) ==
    /\ cfg = k
    /\ active_notes = [s \in 0..(nslots - 1) |-> FreeVoice]
    /\ note_keys_pressed = [n \in 0..(k.num_notes - 1) |-> FALSE]
    /\ inp = InIdle
    /\ au = AuIdle
    /\ since_on = [s \in 0..(nslots - 1) |-> 0]
    /\ since_off = [s \in 0..(nslots - 1) |-> -1]

\* The tracker and the output stage at rest, for the programs that leave them alone.
InitRest == InitTracker(SilentModule) /\ out = OutStart("keyboard") /\ InitSounds

Init == InitRing /\ InitKeyboard(SmallCfg, RaceSlots) /\ InitRest

Next ==
    \/ \E n \in RaceKeys : KeyPress(n)
    \/ \E n \in RaceKeys : KeyRelease(n)
    \/ StartNoteStep
    \/ StopNoteStep
    \/ AudioCheck
    \/ AudioUpdateAdsr
    \/ AudioAdvance

Spec == Init /\ [][Next]_vars

\* Both tasks keep running: audio_task is woken by the sink for every batch
\* of frames, and a call of the input loop runs to its return.
FairSpec ==
    /\ Spec
    /\ WF_vars(AudioCheck \/ AudioUpdateAdsr \/ AudioAdvance)
    /\ WF_vars(StartNoteStep \/ StopNoteStep)

(***************************************************************************)
(* The keyboard with every note event applied between two output frames:   *)
(* start_note, stop_note and the mixing of a frame each run as a whole.    *)
(***************************************************************************)
PressWhole(n) ==
    /\ note_keys_pressed' = [note_keys_pressed EXCEPT ![n] = TRUE]
    /\ active_notes' = start_note(active_notes, n, cfg)
    /\ UNCHANGED <<cfg, inp, au>>
    /\ UNCHANGED <<ringVars, trackVars, soundVars>>

ReleaseWhole(n) ==
    /\ note_keys_pressed' = [note_keys_pressed EXCEPT ![n] = FALSE]
    /\ active_notes' = stop_note(active_notes, n, cfg)
    /\ UNCHANGED <<cfg, inp, au>>
    /\ UNCHANGED <<ringVars, trackVars, soundVars>>

FrameWhole ==
    /\ active_notes' = MixFrame(active_notes, cfg)
    /\ UNCHANGED <<note_keys_pressed, cfg, inp, au>>
    /\ UNCHANGED <<ringVars, trackVars, soundVars>>

SeqKeyPress(n) == PressWhole(n) /\ UNCHANGED <<since_on, since_off>>

SeqKeyRelease(n) == ReleaseWhole(n) /\ UNCHANGED <<since_on, since_off>>

SeqMixFrame == FrameWhole /\ UNCHANGED <<since_on, since_off>>

InitSeq == InitRing /\ InitKeyboard(SmallCfg, SlotsBound) /\ InitRest

NextSeq ==
    \/ \E n \in DOMAIN note_keys_pressed : SeqKeyPress(n)
    \/ \E n \in DOMAIN note_keys_pressed : SeqKeyRelease(n)
    \/ SeqMixFrame

SpecSeq == InitSeq /\ [][NextSeq]_vars

(***************************************************************************)
(* The envelope of one key with the constants of the device, the frames    *)
(* since its note events counted.                                          *)
(***************************************************************************)
\* The key that is played.
EnvKeys == {0}

\* The frame counters stop at these values (beyond them nothing is claimed).
OnCap == cfg.attack + cfg.decay + 2
OffCap == cfg.release + 2

EnvKeyPress(n) ==
    /\ PressWhole(n)
    /\ LET slot == start_slot(active_notes, n, cfg) IN
          /\ since_on' = [s \in DOMAIN since_on |-> IF s = slot THEN 0 ELSE since_on[s]]
          /\ since_off' = [s \in DOMAIN since_off |-> IF s = slot THEN -1 ELSE since_off[s]]

\* The frames after a stop_note are counted when it releases a voice that is
\* held in Sustain.
EnvKeyRelease(n) ==
    /\ ReleaseWhole(n)
    /\ since_off' = [s \in DOMAIN since_off |->
                        IF /\ active_notes[s].note_index = n
                           /\ active_notes[s].adsr_state = ADSR_SUSTAIN
                           /\ active_notes[s].key_held
                        THEN 0 ELSE since_off[s]]
    /\ UNCHANGED since_on

EnvMixFrame ==
    /\ FrameWhole
    /\ since_on' = [s \in DOMAIN since_on |->
                       IF active_notes[s].adsr_state # ADSR_IDLE /\ since_on[s] < OnCap
                       THEN since_on[s] + 1 ELSE since_on[s]]
    /\ since_off' = [s \in DOMAIN since_off |->
                        IF since_off[s] >= 0 /\ since_off[s] < OffCap
                        THEN since_off[s] + 1 ELSE since_off[s]]

InitEnv == InitRing /\ InitKeyboard(DeviceCfg, MAX_ACTIVE_NOTES) /\ InitRest

NextEnv ==
    \/ \E n \in EnvKeys : EnvKeyPress(n)
    \/ \E n \in EnvKeys : EnvKeyRelease(n)
    \/ EnvMixFrame

SpecEnv == InitEnv /\ [][NextEnv]_vars

\* The tracker program: the ring buffer with the keyboard left alone.
SpecRing == Init /\ [][NextRing]_vars

(***************************************************************************)
(* The tracker task alone: any module of the model is loaded and played,   *)
(* modplayer_stop may be called at any moment.                             *)
(***************************************************************************)
InitTrack ==
    /\ InitRing
    /\ InitKeyboard(SmallCfg, RaceSlots)
    /\ InitSounds
    /\ \E d \in SeqModules \cup TempoModules \cup CutModules \cup EdgeModules : InitTracker(d)
    /\ out = OutStart("main")

NextTrack ==
    \/ TrkLoad
    \/ TrkRow
    \/ TrkSameRow
    \/ TrkTick
    \/ TrkDelay
    \/ TrkExit
    \/ ModplayerStop

SpecTrack == InitTrack /\ [][NextTrack]_vars

\* modplayer_task is a task of the scheduler: it takes its next step.
FairTrack == SpecTrack /\ WF_vars(TrkStep)

\* The complete module with sample payloads and without notes.
QuietModule ==
    ModData(1, PositionTable(<<>>), 0, 0, [c \in Channels |-> EmptyBytes], 4,
            MOD_HEADER_BYTES + PatternBytes + 4)

\* The tracker playing a module whose first row carries notes, or a
\* module without any.
InitNotes ==
    /\ InitRing
    /\ InitKeyboard(SmallCfg, RaceSlots)
    /\ InitSounds
    /\ \E d \in NoteModules \cup LoopModules \cup {SilentModule, QuietModule} : InitTracker(d)
    /\ out = OutStart("main")

SpecNotes == InitNotes /\ [][NextTrack]_vars

(***************************************************************************)
(* The output stage of either program, the tracker's writer filling the    *)
(* ring buffer of the trigger-driven one.                                  *)
(***************************************************************************)
InitOut ==
    /\ InitRing
    /\ InitKeyboard(SmallCfg, RaceSlots)
    /\ InitSounds
    /\ InitTracker(SilentModule)
    /\ \E task \in {"main", "keyboard"} : out = OutStart(task)

\* The tracker's writer, which only the trigger-driven program runs.
OutWriterStep == out.task = "main" /\ (WriteCall \/ WriteAttempt \/ WriteStore \/ WritePublish)

NextOut ==
    \/ OutWriterStep
    \/ SoundsFrame
    \/ KeyboardFrame
    \/ I2sWrite

SpecOut == InitOut /\ [][NextOut]_vars

(***************************************************************************)
(* The main loop raising triggers while the audio task runs.               *)
(***************************************************************************)
NextSounds ==
    \/ \E i \in SoundIds : RaiseTrigger(i)
    \/ TriggerTest
    \/ TriggerStart
    \/ TriggerClear
    \/ MixBuffer

\* The trigger-driven program before the first bounce.
InitMain ==
    /\ InitRing
    /\ InitKeyboard(SmallCfg, RaceSlots)
    /\ InitSounds
    /\ InitTracker(SilentModule)
    /\ out = OutStart("main")

SpecSounds == InitMain /\ [][NextSounds]_vars

\* audio_task is a task of the scheduler: it takes its next step.
FairSounds == SpecSounds /\ WF_vars(SoundStep)

(***************************************************************************)
(* The normalization factor of the keyboard's audio_task over a run of     *)
(* output samples with the same number of sounding voices.                 *)
(***************************************************************************)
\* Values of current_normalization at the start of the run: the targets of
\* 13, 4, 2 and 1 voices and values between them.
SteadyStarts == {277350, 300000, 500000, 707107, 900000, 1000000}

\* audio_task with active_count voices sounding from now on; held counts
\* the output samples mixed since.
SteadyStart(active_count, start) ==
    [task |-> "steady", active_count |-> active_count, start |-> start, held |-> 0,
     current_normalization |-> start]

\* One output sample: the smoothing step of the normalization factor.
SteadyFrame ==
    /\ out.task = "steady"
    /\ out.held < MaxSteady
    /\ out' = [out EXCEPT !.current_normalization = Normalize(@, out.active_count),
                          !.held = @ + 1]
    /\ UNCHANGED <<mod_data, mod, mod_player_running, trk, pace>>
    /\ UNCHANGED <<ringVars, voiceVars, soundVars>>

InitSteady ==
    /\ InitRing
    /\ InitKeyboard(SmallCfg, RaceSlots)
    /\ InitSounds
    /\ InitTracker(SilentModule)
    /\ \E active_count \in 1..MAX_ACTIVE_NOTES, start \in SteadyStarts :
          out = SteadyStart(active_count, start)

SpecSteady == InitSteady /\ [][SteadyFrame]_vars

(***************************************************************************)
(* C1: for any interleaving of the producer's and the consumer's steps     *)
(* the mixer never reads a sample that has not been produced (a load       *)
(* happens only while fewer samples are consumed than published, and it    *)
(* returns the oldest unread published sample), it reads the samples in    *)
(* the order they were stored (consumed is a prefix of produced), and      *)
(* mod_read_pos == mod_write_pos holds exactly when the number of samples  *)
(* produced equals the number consumed.                                    *)
(***************************************************************************)
C1_RingOrder ==
    /\ Len(consumed) <= Len(produced)
    /\ \A k \in 1..Len(consumed) : consumed[k] = produced[k]
    /\ rd.pc = "load" => Len(consumed) < Len(produced)
    /\ rd.pc = "advance" =>
          /\ Len(consumed) < Len(produced)
          /\ rd.mod_sample = produced[Len(consumed) + 1]
    /\ (mod_read_pos = mod_write_pos) <=> (Len(produced) = Len(consumed))

\* The indices have wrapped, every published sample was read, the mixer found the buffer empty.
C1_Witness ==
    /\ Len(produced) = MaxProduced
    /\ consumed = produced
    /\ rd.empty
    /\ \E k \in 1..Len(consumed) : consumed[k] # consumed[1]

(***************************************************************************)
(* C2: start_note and stop_note, run by the input loop while audio_task    *)
(* runs update_adsr on the same pool, are safe under any interleaving of   *)
(* their field writes: in no reachable state is a voice non-Idle while its *)
(* note_index is -1.                                                       *)
(***************************************************************************)
C2_NoOrphanVoice ==
    \A s \in Slots :
        active_notes[s].adsr_state # ADSR_IDLE => active_notes[s].note_index # -1

(***************************************************************************)
(* C3: with the mixer running, every voice eventually returns to ADSR_IDLE *)
(* with adsr_level 0 and note_index -1: from any moment at which every key *)
(* is released and the last stop_note has returned, either a key is        *)
(* pressed again or, after finitely many frames, every slot is free.       *)
(***************************************************************************)
Quiet ==
    /\ inp.pc = "idle"
    /\ \A n \in DOMAIN note_keys_pressed : ~note_keys_pressed[n]

VoiceFree(v) ==
    /\ v.adsr_state = ADSR_IDLE
    /\ FracEq(v.adsr_level, Zero)
    /\ v.note_index = -1

C3_EventuallyIdle ==
    Quiet ~> (~Quiet \/ \A s \in Slots : VoiceFree(active_notes[s]))

(***************************************************************************)
(* C4: for each note n at most one slot is non-Idle with note_index n, and *)
(* start_note(n) on a note that is already sounding settles on the slot    *)
(* that holds it.                                                          *)
(***************************************************************************)
Sounding(v, n) == v.adsr_state # ADSR_IDLE /\ v.note_index = n

C4_OneSlotPerNote ==
    \A n \in DOMAIN note_keys_pressed :
        /\ Cardinality({s \in Slots : Sounding(active_notes[s], n)}) <= 1
        /\ \A s \in Slots :
              Sounding(active_notes[s], n) => start_slot(active_notes, n, cfg) = s

\* Slot 1 was retriggered after slot 0 had become free: a first start of the
\* note would have taken slot 0.
C4_Witness ==
    /\ active_notes[0].adsr_state = ADSR_IDLE
    /\ active_notes[1].adsr_state = ADSR_ATTACK
    /\ active_notes[1].adsr_timer = 0
    /\ active_notes[1].playback_position = 0
    /\ active_notes[1].key_held

(***************************************************************************)
(* C5: at every mixer sample boundary (audio_task between two frames, no   *)
(* note call under way) a slot is in ADSR_IDLE exactly when its note_index *)
(* is -1, and every Idle slot has adsr_level 0.                            *)
(***************************************************************************)
C5_IdleIffFree ==
    (au = AuIdle /\ inp.pc = "idle") =>
        \A s \in Slots :
            /\ (active_notes[s].adsr_state = ADSR_IDLE) <=> (active_notes[s].note_index = -1)
            /\ active_notes[s].adsr_state = ADSR_IDLE =>
                  FracEq(active_notes[s].adsr_level, Zero)

C8_FreeWithinRelease ==
    \A s \in Slots :
        since_off[s] >= cfg.release => VoiceFree(active_notes[s])

(***************************************************************************)
(* C8 amended: when stop_note(n) is called, between two frames, on a voice *)
(* held in Sustain, the first frame after the call moves the voice to      *)
(* Release and the next ADSR_RELEASE_SAMPLES frames run the release:       *)
(* adsr_level is above 0 and the slot still holds n up to the frame        *)
(* ADSR_RELEASE_SAMPLES after the call, and the slot is free (ADSR_IDLE,   *)
(* adsr_level 0, note_index -1) exactly from frame ADSR_RELEASE_SAMPLES+1. *)
(***************************************************************************)
C8_FreeAfterReleasePlusOne ==
    \A s \in Slots :
        LET v == active_notes[s] IN
        since_off[s] >= 0 =>
            /\ VoiceFree(v) <=> since_off[s] >= cfg.release + 1
            /\ since_off[s] <= cfg.release =>
                  /\ FracLess(Zero, v.adsr_level)
                  /\ v.note_index # -1
                  /\ v.adsr_state = (IF since_off[s] = 0 THEN ADSR_SUSTAIN ELSE ADSR_RELEASE)
            /\ v.adsr_state = ADSR_RELEASE => v.adsr_timer = since_off[s] - 1

\* The frame at which the released voice has just become free.
C8_Witness ==
    \E s \in Slots :
        /\ since_off[s] = cfg.release + 1
        /\ VoiceFree(active_notes[s])

LowestOf(S) == CHOOSE s \in S : \A r \in S : s <= r

ExpectedSlot(notes, n) ==
    LET holding == {s \in DOMAIN notes : notes[s].note_index = n}
        idle == {s \in DOMAIN notes : notes[s].adsr_state = ADSR_IDLE}
    IN  IF holding # {} THEN LowestOf(holding)
        ELSE IF idle # {} THEN LowestOf(idle)
        ELSE -1

StartedVoice(n) ==
    [note_index |-> n, playback_position |-> 0,
     playback_speed |-> Frac(note_frequency[n + 1], WAVEFORM_BASE_FREQ),
     adsr_state |-> ADSR_ATTACK, adsr_timer |-> 0, adsr_level |-> Zero,
     key_held |-> TRUE]

C10_StartNote ==
    \A n \in DOMAIN note_keys_pressed :
        LET e == ExpectedSlot(active_notes, n) IN
        e >= 0 =>
            start_note(active_notes, n, cfg) = [active_notes EXCEPT ![e] = StartedVoice(n)]

\* start_note has just put a second note into slot 1, the lowest free slot,
\* while slot 0 goes on sounding the first one.
C10_Witness ==
    /\ active_notes[0].adsr_state \in {ADSR_DECAY, ADSR_SUSTAIN}
    /\ active_notes[1].note_index >= 0
    /\ active_notes[1].note_index # active_notes[0].note_index
    /\ active_notes[1] = StartedVoice(active_notes[1].note_index)

(***************************************************************************)
(* C11: start_note(n) leaves the whole voice pool unchanged when n is      *)
(* outside 0..NUM_NOTES-1, and when no slot holds n and no slot is         *)
(* ADSR_IDLE: the note is dropped and no sounding voice is taken or reset. *)
(***************************************************************************)
PoolFullFor(notes, n) ==
    \A s \in DOMAIN notes : notes[s].note_index # n /\ notes[s].adsr_state # ADSR_IDLE

C11_StartNoteDropped ==
    /\ \A n \in {-1, cfg.num_notes} :
          start_note(active_notes, n, cfg) = active_notes
    /\ \A n \in DOMAIN note_keys_pressed :
          PoolFullFor(active_notes, n) => start_note(active_notes, n, cfg) = active_notes

\* A key is down whose note was dropped: every slot sounds another note.
C11_Witness ==
    \E n \in DOMAIN note_keys_pressed :
        /\ note_keys_pressed[n]
        /\ PoolFullFor(active_notes, n)
        /\ \A s \in Slots : active_notes[s].key_held

(***************************************************************************)
(* C12: mod_read_pos and mod_write_pos lie in 0..MOD_BUFFER_SIZE-1, the    *)
(* buffer holds (mod_write_pos - mod_read_pos) mod MOD_BUFFER_SIZE unread  *)
(* samples, never more than MOD_BUFFER_SIZE-1, and mod_read_pos ==         *)
(* mod_write_pos always means empty, never full.                           *)
(***************************************************************************)
Unread == Len(produced) - Len(consumed)

C12_RingIndices ==
    /\ mod_read_pos \in 0..(BufSize - 1)
    /\ mod_write_pos \in 0..(BufSize - 1)
    /\ Unread = (mod_write_pos - mod_read_pos + BufSize) % BufSize
    /\ Unread <= BufSize - 1
    /\ mod_read_pos = mod_write_pos => Unread = 0

\* The buffer is full with the write index wrapped round behind the read index.
C12_Witness ==
    /\ Unread = BufSize - 1
    /\ mod_write_pos < mod_read_pos
    /\ (mod_write_pos + 1) % BufSize = mod_read_pos

(***************************************************************************)
(* C13: a write attempt on a full buffer ((mod_write_pos + 1) %            *)
(* MOD_BUFFER_SIZE == mod_read_pos) drops the sample and leaves            *)
(* mod_write_pos and the buffer unchanged; no step of                      *)
(* write_to_ring_buffer waits for the consumer, and the call returns after *)
(* exactly 2 * count write attempts.                                       *)
(***************************************************************************)
C13_DropWhenFull ==
    /\ [][(/\ wr.pc = "attempt"
           /\ wr'.attempts # wr.attempts
           /\ (mod_write_pos + 1) % BufSize = mod_read_pos)
          => /\ mod_write_pos' = mod_write_pos
             /\ mod_ring_buffer' = mod_ring_buffer
             /\ produced' = produced
             /\ wr'.pc \in {"attempt", "idle"}]_vars
    /\ [](/\ wr.pc = "attempt" => ENABLED WriteAttempt
          /\ wr.pc = "store" => ENABLED WriteStore
          /\ wr.pc = "publish" => ENABLED WritePublish
          /\ wr.pc # "idle" => wr.attempts <= 2 * Len(wr.samples))
    /\ [][(wr.pc # "idle" /\ wr'.pc = "idle")
          => wr'.attempts = 2 * Len(wr.samples)]_vars

\* A call has returned with samples dropped although the consumer never ran.
C13_Witness ==
    /\ wr.pc = "idle"
    /\ wr.attempts = 2 * MaxCount
    /\ Len(produced) < wr.attempts
    /\ consumed = <<>>
    /\ rd = RdIdle

(***************************************************************************)
(* C14: every step of the producer leaves mod_read_pos unchanged and       *)
(* changes nothing but mod_write_pos and the buffer slot at mod_write_pos; *)
(* every step of the consumer leaves mod_write_pos and the buffer          *)
(* unchanged and changes nothing but mod_read_pos.                         *)
(***************************************************************************)
C14_RingFrames ==
    [][/\ wr' # wr =>
             /\ mod_read_pos' = mod_read_pos
             /\ \A p \in DOMAIN mod_ring_buffer :
                   p # mod_write_pos => mod_ring_buffer'[p] = mod_ring_buffer[p]
       /\ rd' # rd =>
             /\ mod_write_pos' = mod_write_pos
             /\ mod_ring_buffer' = mod_ring_buffer]_vars

\* The producer has just stored a sample after the consumer has taken one.
C14_Witness ==
    /\ wr.pc = "publish"
    /\ mod_ring_buffer[mod_write_pos] = wr.scaled_sample
    /\ wr.scaled_sample # 0
    /\ Len(consumed) >= 1
    /\ mod_read_pos # 0

(***************************************************************************)
(* C15: after each tick the tracker is suspended for delay_ms =            *)
(* samples_to_generate * 1000 / 22050 milliseconds, and the                *)
(* 2 * samples_to_generate samples it has offered to the ring buffer are   *)
(* no more than the mixer takes at 44100 samples per second during         *)
(* delay_ms; no sample offered to the ring buffer is dropped.              *)
(***************************************************************************)
C15_TickFitsDelay ==
    /\ trk.pc = "delay" =>
          /\ trk.delay_ms = (trk.samples_to_generate * 1000) \div SAMPLE_RATE
          /\ 2 * trk.samples_to_generate * 1000 <= I2S_SAMPLE_RATE * trk.delay_ms
    /\ ~pace.dropped

(***************************************************************************)
(* C16: when data_len is too short for the header, for the pattern block   *)
(* or for the sample payloads, load_mod_embedded fails and modplayer_task  *)
(* deletes itself without having played a tick, and no byte at or behind   *)
(* offset data_len has been read.                                          *)
(***************************************************************************)
TooShort(d) ==
    \/ d.data_len < MOD_HEADER_BYTES
    \/ d.data_len < PatternEnd(d)
    \/ d.data_len < SampleEnd(d)

C16_FailFast ==
    (trk.pc # "load" /\ TooShort(mod_data)) =>
        /\ trk.pc = "deleted"
        /\ trk.ticks = 0
        /\ trk.read_end <= mod_data.data_len

(***************************************************************************)
(* C19: for the tempo in force, 125 or a tempo 32..255 set by effect 0xF,  *)
(* samples_per_tick is the quotient of 2500 * 22050 by tempo * 1000        *)
(* rounded down: 441 at tempo 125 and 220 at tempo 250; the two products   *)
(* fit the 32-bit int and the divisor is not zero.                         *)
(***************************************************************************)
C19_TickSamples ==
    /\ trk.tempo \in {125} \cup 32..255
    /\ TickSamplesDefined(trk.tempo)
    /\ trk.samples_per_tick = calculate_tick_samples(trk.tempo)
    /\ trk.samples_per_tick * (trk.tempo * 1000) <= 55125000
    /\ 55125000 < (trk.samples_per_tick + 1) * (trk.tempo * 1000)
    /\ trk.tempo = 125 => trk.samples_per_tick = 441
    /\ trk.tempo = 250 => trk.samples_per_tick = 220

C19_Witness ==
    /\ trk.pc = "tick"
    /\ trk.channels[0].effect = 15
    /\ trk.channels[0].param = 250
    /\ trk.tempo = 250
    /\ trk.samples_per_tick = 220

(***************************************************************************)
(* C20: as long as the player is left running, row 0 of position 0 is      *)
(* handed to process_row again and again: behind the last row of the last  *)
(* song position the song goes on at position 0.                           *)
(***************************************************************************)
RowZeroPlayed == trk.pc = "tick" /\ trk.current_tick = 0 /\ trk.played = <<0, 0>>

C20_SongLoops == (<>[]mod_player_running) => []<>RowZeroPlayed

C20_Witness == RowZeroPlayed /\ trk.looped /\ mod.song_length = 2 /\ mod_player_running

(***************************************************************************)
(* C17: once i2s_channel_write has reported an error, the mixer loop mixes *)
(* no further frame.                                                       *)
(***************************************************************************)
C17_HaltOnWriteError == ~out.after_error

(***************************************************************************)
(* C18: every sample that either audio_task stores in its output buffer    *)
(* lies within -32767..32767 and is the mix, limited to -1..1, times       *)
(* 32767 with the fraction cut off: the conversion never wraps.            *)
(***************************************************************************)
C18_SampleInRange ==
    /\ out.sample \in -32767..32767
    /\ out.mix > 1000 => out.sample = 32767
    /\ out.mix < -1000 => out.sample = -32767
    /\ out.mix \in -1000..1000 => out.sample = TruncDiv(out.mix * 32767, 1000)

C18_Witness ==
    /\ out.task = "keyboard"
    /\ out.mix > 1000
    /\ out.sample = 32767
    /\ out.current_normalization < 1000000

C18_WitnessMain ==
    /\ out.task = "main"
    /\ out.mix < -1000
    /\ out.sample = -32767
    /\ Len(consumed) > 0

(***************************************************************************)
(* C23: a note-on is not lost: whenever start_note(n) has returned and key *)
(* n is still held, a slot holds note n in Attack, Decay or Sustain with   *)
(* key_held true, whatever steps of audio_task fell between the writes of  *)
(* start_note.                                                             *)
(***************************************************************************)
C23_NoteOnKept ==
    \A n \in RaceKeys :
        (inp = InIdle /\ note_keys_pressed[n]) =>
            \E s \in DOMAIN active_notes :
                /\ active_notes[s].note_index = n
                /\ active_notes[s].adsr_state \in {ADSR_ATTACK, ADSR_DECAY, ADSR_SUSTAIN}
                /\ active_notes[s].key_held

(***************************************************************************)
(* C26: the envelope state of a voice changes only along these edges: to   *)
(* Attack by a write of start_note; Attack to Decay, Decay to Sustain and  *)
(* Release to Idle by audio_task; Sustain to Release by audio_task while   *)
(* key_held is false.  No step takes a voice from Attack or Decay to       *)
(* Release or Idle.                                                        *)
(***************************************************************************)
EnvelopeEdges ==
    {<<ADSR_ATTACK, ADSR_DECAY>>, <<ADSR_DECAY, ADSR_SUSTAIN>>,
     <<ADSR_SUSTAIN, ADSR_RELEASE>>, <<ADSR_RELEASE, ADSR_IDLE>>}

C27_TwiceOrNever ==
    [][(wr.pc \in {"attempt", "publish"} /\ wr.j = 1 /\ wr'.pc \in {"attempt", "idle"} /\ wr' # wr)
          => (wr.stored + Len(produced') - Len(produced)) \in {0, 2}]_vars

(***************************************************************************)
(* C28: the number of native-rate samples that a tick has generated and    *)
(* offered to the ring buffer is calculate_tick_samples of the tempo in    *)
(* force, for the default tempo and every tempo 32..255 of effect 0xF.     *)
(***************************************************************************)
C28_TickOffersAll ==
    trk.pc = "delay" =>
        /\ trk.samples_to_generate = trk.samples_per_tick
        /\ trk.samples_to_generate = calculate_tick_samples(trk.tempo)

(***************************************************************************)
(* C29: for every module that the loader accepts, song lengths 0 and above *)
(* 128 included, num_patterns is the largest of the first song_length      *)
(* positions plus one, without wrap-around at 8 bits, and every            *)
(* (position, row) handed to process_row addresses a row inside the        *)
(* allocated pattern block: position < 128 and positions[position] <       *)
(* num_patterns.                                                           *)
(***************************************************************************)
C29_RowInsideBlock ==
    trk.pc \in {"head", "tick", "delay"} =>
        /\ mod.num_patterns =
              MaxOf({0} \cup {PositionEntry(mod.positions, i) :
                                 i \in {j \in PositionIdx : j < mod.song_length}}) + 1
        /\ trk.row_inside

(***************************************************************************)
(* C30: every Note of the decoded pattern block carries a sample number in *)
(* 0..31, and process_row indexes mod->samples only at 0..30.              *)
(***************************************************************************)
C30_SampleNumberInRange ==
    /\ \A p \in DOMAIN mod.patterns : \A r \in Rows : \A c \in Channels :
           mod.patterns[p][r][c].sample \in 0..MAX_SAMPLES
    /\ trk.sample_inside

(***************************************************************************)
(* C21: while a module of song length 1 whose one pattern has only empty   *)
(* rows is played, every sample that a tick generates is 0 and is enqueued *)
(* as 0, the rows of the pattern are handed to process_row one after the   *)
(* other, and after the last row playback goes on at position 0, row 0.    *)
(***************************************************************************)
C21_SilentPattern ==
    [][(mod_data \in {SilentModule, QuietModule}) =>
          (/\ ~trk'.buffer_nonzero
           /\ trk'.buffer_first = 0
           /\ ScaleSample(trk'.buffer_first) = 0
           /\ (trk'.played # trk.played =>
                 trk'.played = IF trk.played # <<-1, -1>> /\ trk.played[2] + 1 < RowsBound
                               THEN <<0, trk.played[2] + 1>>
                               ELSE <<0, 0>>))]_vars

\* The module with samples and without notes has been played to its end
\* and has begun again.
C21_Witness ==
    /\ mod_data = QuietModule
    /\ trk.looped
    /\ trk.played = <<0, 0>>
    /\ trk.pc = "delay"
    /\ trk.samples_to_generate = calculate_tick_samples(125)

(***************************************************************************)
(* C22: once active_count has had the same value k in 1..13 for at least   *)
(* 1000 consecutive output samples, current_normalization is within 1% of  *)
(* 1/sqrt(k), whatever value between 1/sqrt(13) and 1 it started from.     *)
(***************************************************************************)
C22_NormalizationSettles ==
    (out.task = "steady" /\ out.held >= 1000) =>
        LET target == TargetNormalization[out.active_count]
            diff == out.current_normalization - target
        IN /\ diff * 100 <= target
           /\ -diff * 100 <= target

\* Thirteen voices have sounded for 1000 samples after silence and the
\* factor has come down from 1 to near 1/sqrt(13).
C22_Witness ==
    /\ out.task = "steady"
    /\ out.held = 1000
    /\ out.active_count = MAX_ACTIVE_NOTES
    /\ out.start = 1000000
    /\ out.current_normalization < 300000

(***************************************************************************)
(* C24: for any interleaving of the main loop raising sound_trigger[i]     *)
(* with the test, start and clear steps of the audio task, every trigger   *)
(* raised is followed by a restart of sound i at position 0 made after it  *)
(* was raised (or finds no slot), and every raised flag is cleared later.  *)
(***************************************************************************)
C24_TriggerServed ==
    \A i \in SoundIds :
        /\ raised[i] ~> ~raised[i]
        /\ sound_trigger[i] ~> ~sound_trigger[i]

(***************************************************************************)
(* C25: at most one slot of active_sounds is active for any sound, for     *)
(* every sequence of triggers and sound completions.                       *)
(***************************************************************************)
C25_OneSlotPerSound ==
    \A i \in SoundIds :
        Cardinality({slot \in DOMAIN active_sounds :
                        active_sounds[slot].active /\ active_sounds[slot].sample_data = i}) <= 1

(***************************************************************************)
(* C34: at the head of every iteration of the playback loop the row is a   *)
(* row of a pattern, 0 <= current_tick < ticks_per_row, ticks_per_row is   *)
(* at least 1, the tempo is in 32..255 and samples_per_tick is             *)
(* calculate_tick_samples(tempo), whatever rows and effects the module     *)
(* carries.                                                                *)
(***************************************************************************)
C34_LoopHead ==
    trk.pc = "head" =>
        /\ trk.row \in Rows
        /\ trk.current_tick >= 0
        /\ trk.current_tick < trk.ticks_per_row
        /\ trk.ticks_per_row >= 1
        /\ trk.tempo \in 32..255
        /\ trk.samples_per_tick = calculate_tick_samples(trk.tempo)

\* The loop is at its head before the last tick of a row, at speed 3 and
\* tempo 250, in a song that has wrapped.
C34_Witness ==
    /\ trk.pc = "head"
    /\ trk.ticks_per_row = 3
    /\ trk.current_tick = 2
    /\ trk.tempo = 250
    /\ trk.looped

(***************************************************************************)
(* C35: when a cell of the row processed on tick 0 carries effect 0xD, the *)
(* next row handed to process_row is row 0 of the next song position,      *)
(* position 0 after the last one: the remaining rows of the pattern are    *)
(* not played.                                                             *)
(***************************************************************************)
C35_PatternBreak ==
    [][(/\ trk.pc = "head"
        /\ trk'.pc = "tick"
        /\ trk.current_tick = 0
        /\ trk.played # <<-1, -1>>
        /\ \E c \in Channels : trk.channels[c].effect = 13)
       => trk'.played = <<WrapPosition(trk.played[1] + 1, mod.song_length), 0>>]_vars

\* Row 0 of the second position is played, in a song of two positions that
\* has not wrapped and whose first pattern breaks in its first row.
C35_Witness ==
    /\ trk.pc = "tick"
    /\ trk.played = <<1, 0>>
    /\ ~trk.looped
    /\ mod.song_length = 2
    /\ \E c \in Channels :
          mod.patterns[PositionEntry(mod.positions, 0)][0][c].effect = 13

(***************************************************************************)
(* C36: on tick 0 of a row every channel whose cell carries effect 0xF     *)
(* takes effect, whatever the other channels of the row carry: a parameter *)
(* below 0x20 becomes ticks_per_row, a parameter of 0x20 or more becomes   *)
(* the tempo and samples_per_tick is recomputed from it.  Of two such      *)
(* cells in a row the one of the higher channel stays in force, and a set  *)
(* speed with parameter 0 is not held against the statement.               *)
(***************************************************************************)
C36_SpeedAndTempo ==
    [][(trk.pc = "head" /\ trk'.pc = "tick" /\ trk.current_tick = 0)
       => \A c \in Channels :
             trk'.channels[c].effect = 15 =>
                LET p == trk'.channels[c].param
                    later(S) == \E c2 \in Channels :
                                   /\ c2 > c
                                   /\ trk'.channels[c2].effect = 15
                                   /\ trk'.channels[c2].param \in S
                IN IF p < 32
                   THEN p = 0 \/ trk'.ticks_per_row = p \/ later(1..31)
                   ELSE \/ /\ trk'.tempo = p
                           /\ trk'.samples_per_tick = calculate_tick_samples(p)
                        \/ later(32..255)]_vars

(***************************************************************************)
(* C39: playback starts at position 0, row 0, tick 0 with tempo 125 and 6  *)
(* ticks per row, and tempo and speed stay so while no row carries effect  *)
(* 0xF (here: in every module without such a cell).                        *)
(***************************************************************************)
C39_DefaultSpeed ==
    trk.pc \in {"head", "tick", "delay"} =>
        /\ trk.played = <<-1, -1>> =>
              /\ trk.position = 0 /\ trk.row = 0 /\ trk.current_tick = 0
              /\ trk.tempo = 125 /\ trk.ticks_per_row = 6
        /\ (\A p \in DOMAIN mod.patterns : \A r \in Rows : \A c \in Channels :
               mod.patterns[p][r][c].effect # 15)
           => trk.tempo = 125 /\ trk.ticks_per_row = 6

\* The Notes of the row that the loop head is about to hand to process_row,
\* in a module whose positions all name patterns of the block.
HeadNotes == mod.patterns[PositionEntry(mod.positions, trk.position)][trk.row]

\* The step of the playback loop that processes a row.
RowStep == trk.pc = "head" /\ trk'.pc = "tick" /\ trk.current_tick = 0

(***************************************************************************)
(* C37: the volume of every channel is within 0..64 in every state; a cell *)
(* with effect 0xC sets the volume to its parameter, clamped to 64, for    *)
(* every parameter 0..255; a cell that selects a sample (and carries no    *)
(* 0xC) sets the volume to the default volume of that sample.              *)
(***************************************************************************)
C37_VolumeInRange ==
    [][/\ \A c \in Channels : trk'.channels[c].volume \in 0..64
       /\ RowStep =>
             \A c \in Channels :
                LET note == HeadNotes[c] IN
                /\ note.effect = 12 => trk'.channels[c].volume = MinOf(note.param, 64)
                /\ (note.effect # 12 /\ note.sample \in 1..MAX_SAMPLES)
                      => trk'.channels[c].volume =
                            SampleTable(mod.sample_bytes)[note.sample - 1].volume]_vars

\* floor(period_to_freq(period) * 65536 / 22050) for the periods that the
\* cells of the model carry.
ExpectedIncrement ==
    [p \in {1, 214, 428, 4095} |->
        IF p = 1 THEN 10638960 ELSE IF p = 214 THEN 49714 ELSE IF p = 428 THEN 24857 ELSE 2598]

(***************************************************************************)
(* C38: on tick 0 of a row every cell with a period other than 0 sets the  *)
(* period of its channel, resets sample_pos to 0 and sets sample_increment *)
(* to floor(period_to_freq(period) * 65536 / 22050), whatever effect the   *)
(* cell carries.                                                           *)
(***************************************************************************)
C38_PeriodStarts ==
    [][RowStep =>
          \A c \in Channels :
             LET note == HeadNotes[c] IN
             note.period # 0 =>
                /\ trk'.channels[c].period = note.period
                /\ trk'.channels[c].sample_pos = SamplePos(0, 0)
                /\ trk'.channels[c].sample_increment =
                      ExpectedIncrement[note.period]]_vars

(***************************************************************************)
(* C38, amended: on tick 0 of a row every cell with a period other than 0  *)
(* and an effect other than 0x3 sets the period of its channel, resets     *)
(* sample_pos to 0 and sets sample_increment to                            *)
(* floor(period_to_freq(period) * 65536 / 22050).  A cell with effect 0x3 *)
(* leaves the three alone.                                                 *)
(***************************************************************************)
C38_PeriodStartsUnlessPortamento ==
    [][RowStep =>
          \A c \in Channels :
             LET note == HeadNotes[c] IN
             note.period # 0 =>
                IF note.effect # 3
                THEN /\ trk'.channels[c].period = note.period
                     /\ trk'.channels[c].sample_pos = SamplePos(0, 0)
                     /\ trk'.channels[c].sample_increment =
                           ExpectedIncrement[note.period]
                ELSE /\ trk'.channels[c].period = trk.channels[c].period
                     /\ trk'.channels[c].sample_pos = trk.channels[c].sample_pos
                     /\ trk'.channels[c].sample_increment = trk.channels[c].sample_increment]_vars

\* The row with period 428 under effect 0xC has just been processed again
\* in a song that has wrapped: the channel starts at sample_pos 0.
C38_Witness ==
    /\ trk.pc = "tick"
    /\ trk.looped
    /\ trk.channels[0].period = 428
    /\ trk.channels[0].effect = 12
    /\ trk.channels[0].sample_pos = SamplePos(0, 0)
    /\ trk.channels[0].sample_increment = 24857
    /\ trk.channels[1].period = 214

(***************************************************************************)
(* C40: on every output sample of the keyboard mixer the gain moves by one *)
(* smoothing step, a hundredth of its distance to the target, where the    *)
(* target is 1/sqrt(active_count) for a number of sounding voices in       *)
(* 1..MAX_ACTIVE_NOTES and 1.0 for none (the target of one voice); it      *)
(* never reaches a distant target in a single sample.                      *)
(***************************************************************************)
C40_OneSmoothingStep ==
    [][(out.task = "keyboard" /\ out'.frames # out.frames)
       => \E k \in 1..MAX_ACTIVE_NOTES :
             out'.current_normalization =
                out.current_normalization
                + TruncDiv(TargetNormalization[k] - out.current_normalization, 100)]_vars

(***************************************************************************)
(* C33: once modplayer_stop has been called, at whatever moment, also      *)
(* before the task has set mod_player_running, modplayer_task eventually   *)
(* has left its playback loop and freed the pattern memory (or has deleted *)
(* itself after a failed load), generates no further tick, and             *)
(* mod_player_running is false.                                            *)
(***************************************************************************)
C33_StopStops ==
    trk.stop_called ~>
        /\ trk.pc \in {"stopped", "deleted"}
        /\ mod.patterns = <<>>
        /\ ~mod_player_running

(***************************************************************************)
(* C31: the length, repeat_point and repeat_length that the loader stores  *)
(* are twice the word counts of the header, for all word counts up to      *)
(* 65535, and the payload of a sample lies behind the pattern block at the *)
(* sum of the byte lengths of the samples before it.                       *)
(***************************************************************************)
C31_ByteCounts ==
    trk.pc \in {"head", "tick", "delay"} =>
        LET w == mod_data.sample_words
            samples == SampleTable(mod.sample_bytes)
        IN /\ samples[0].length = 2 * w.length
           /\ samples[0].repeat_point = 2 * w.repeat_point
           /\ samples[0].repeat_length = 2 * w.repeat_length
           /\ samples[MAX_SAMPLES - 1].length = 2 * w.last
           /\ samples[0].length > 0 => samples[0].data = 0
           /\ samples[MAX_SAMPLES - 1].length > 0
                 => samples[MAX_SAMPLES - 1].data = 2 * w.length

(***************************************************************************)
(* C32: process_tick reads the bytes of a sample only at an index below    *)
(* the length of that sample, and never leaves a sample without loop       *)
(* (repeat_length <= 2) playing once its position has come to its end: the *)
(* channel is stopped with period 0 and sample_pos 0.                      *)
(***************************************************************************)
C32_SampleEnds ==
    /\ trk.read_inside
    /\ ~trk.end_missed
    /\ \A c \in Channels : trk.channels[c].period = 0 => trk.channels[c].sample_pos.hi = 0

=============================================================================
